---- MODULE Spec2Model ----
(***************************************************************************)
(* Model of the reliable-call core of the Confluence MCP server:           *)
(* src/core/retry.py (is_retryable_error, calculate_delay and the wrapper  *)
(* built by retry_with_backoff) over the error taxonomy of                 *)
(* src/core/exceptions.py.                                                 *)
(*                                                                         *)
(* Durations are integers counted in ticks, TicksPerSecond ticks to the    *)
(* second.  One behaviour is one call of a decorated function: the policy  *)
(* is fixed at decoration time (Init), the outcomes of the wrapped         *)
(* operation and the jitter draws are chosen by the environment.           *)
(*                                                                         *)
(* Spec is a call served by wrapper, SpecAsync one served by async_wrapper *)
(* (with cancellation), SpecVariants feeds both the same outcomes,         *)
(* SpecTwoCalls interleaves two calls, and SpecOps is a call of a tool of  *)
(* src/modules/confluence (validators, client, handle_api_errors, and the  *)
(* counters of src/core/metrics.py).  SpecPredicate is a call served by    *)
(* the wrappers of retry_on_predicate, SpecHealth a health check of        *)
(* src/core/health.py, and SpecHtml one conversion by                      *)
(* src/core/html_utils.py.                                                 *)
(***************************************************************************)
EXTENDS Integers, Sequences, FiniteSets

\* ------------------------------------------------------------------ bounds

\* Largest max_retries a policy of the model carries.
MaxRetriesBound == 2

\* Largest max_retries of a policy where two calls run at a time.
TwoCallsMaxRetries == 1

\* Resolution of the clock: ticks per second.
TicksPerSecond == 4

\* -------------------------------------------------------- error taxonomy

\* Python's None for an Optional[int] field (status_code, retry_after).
None == -1

\* The exception classes of src/core/exceptions.py the retry engine meets,
\* each with its direct base class.
BaseOf ==
    [ Exception                     |-> "BaseException",
      ConfluenceMCPError            |-> "Exception",
      ConfluenceAPIError            |-> "ConfluenceMCPError",
      ConfluenceAuthenticationError |-> "ConfluenceAPIError",
      ConfluencePermissionError     |-> "ConfluenceAPIError",
      ConfluenceNotFoundError       |-> "ConfluenceAPIError",
      ConfluenceRateLimitError      |-> "ConfluenceAPIError",
      ValidationError               |-> "ConfluenceMCPError",
      MaxRetriesExceededError       |-> "ConfluenceMCPError",
      InvalidQueryError             |-> "ValidationError",
      InvalidPageIdError            |-> "ValidationError",
      InvalidSpaceKeyError          |-> "ValidationError",
      InvalidLimitError             |-> "ValidationError",
      TypeError                     |-> "Exception",
      CancelledError                |-> "BaseException" ]

Classes == DOMAIN BaseOf

\* The classes cls derives from, itself included (its method resolution order).
RECURSIVE Mro(_)
Mro(cls) == IF cls \in Classes THEN {cls} \cup Mro(BaseOf[cls]) ELSE {cls}

\* isinstance(e, types) for a tuple of classes, here the set of its members.
IsInstance(e, types) == Mro(e.cls) \cap types # {}

\* A message is the sequence of its words; str.lower() works word by word.
Lower(word) ==
    CASE word = "Connection" -> "connection"
      [] word = "Timeout"    -> "timeout"
      [] word = "Boom"       -> "boom"
      [] OTHER               -> word

LowerMsg(msg) == [i \in 1..Len(msg) |-> Lower(msg[i])]

\* pattern in message: the pattern occurs as a contiguous run of the message.
Contains(msg, pattern) ==
    \E i \in 0..(Len(msg) - Len(pattern)) :
        \A k \in 1..Len(pattern) : msg[i + k] = pattern[k]

\* Status codes that trigger a retry.
RETRYABLE_ERROR_CODES == {429, 500, 502, 503, 504}

retryable_patterns ==
    { <<"connection">>, <<"timeout">>, <<"temporary", "failure">>,
      <<"service", "unavailable">>, <<"too", "many", "requests">> }

\* The constructors: each fixes the fields its class fixes.
GenericError(msg) ==
    [cls |-> "Exception", status_code |-> None, retry_after |-> None, msg |-> msg]

ConfluenceAPIError(msg, status_code) ==
    [cls |-> "ConfluenceAPIError", status_code |-> status_code,
     retry_after |-> None, msg |-> msg]

ConfluenceAuthenticationError(msg) ==
    [cls |-> "ConfluenceAuthenticationError", status_code |-> 401,
     retry_after |-> None, msg |-> msg]

ConfluencePermissionError(msg) ==
    [cls |-> "ConfluencePermissionError", status_code |-> 403,
     retry_after |-> None, msg |-> msg]

ConfluenceNotFoundError ==
    [cls |-> "ConfluenceNotFoundError", status_code |-> 404,
     retry_after |-> None, msg |-> <<"page", "not", "found">>]

ConfluenceRateLimitError(retry_after) ==
    [cls |-> "ConfluenceRateLimitError", status_code |-> 429,
     retry_after |-> retry_after, msg |-> <<"Rate", "limit", "exceeded">>]

ValidationError(msg) ==
    [cls |-> "ValidationError", status_code |-> None, retry_after |-> None,
     msg |-> msg]

MaxRetriesExceededError(total_retries, last) ==
    [cls |-> "MaxRetriesExceededError", total_retries |-> total_retries,
     last_exception |-> last]

\* The TypeError isinstance raises; context is the error being handled.
TypeError(context) == [cls |-> "TypeError", context |-> context]

\* asyncio.CancelledError, thrown into a coroutine at the await it is
\* suspended in when its task is cancelled (by a timeout, for one).
CancelledError ==
    [cls |-> "CancelledError", status_code |-> None, retry_after |-> None,
     msg |-> <<>>]

\* last_exception before any attempt has failed.
NoException == [cls |-> "NoneType"]

\* --------------------------------------------------------- classification

\* Variant for C5: no branch for authentication and permission errors, and
\* client errors (4xx) taken for transient.
is_retryable_error_ClientErrors(exception) ==
    IF IsInstance(exception, {"ConfluenceAPIError"})
    THEN IF IsInstance(exception, {"ConfluenceRateLimitError"}) THEN TRUE
         ELSE IF exception.status_code \in RETRYABLE_ERROR_CODES THEN TRUE
         ELSE exception.status_code # None /\ exception.status_code >= 400
    ELSE TRUE

is_retryable_error(exception) ==
    IF IsInstance(exception, {"ConfluenceAPIError"})
    THEN IF IsInstance(exception, {"ConfluenceRateLimitError"}) THEN TRUE
         ELSE IF exception.status_code \in RETRYABLE_ERROR_CODES THEN TRUE
         ELSE IF IsInstance(exception, {"ConfluenceAuthenticationError",
                                        "ConfluencePermissionError"}) THEN FALSE
         ELSE exception.status_code # None /\ exception.status_code >= 500
    ELSE IF \E pattern \in retryable_patterns :
                Contains(LowerMsg(exception.msg), pattern)
         THEN TRUE
         ELSE TRUE

\* ------------------------------------------------------------------ delay

RECURSIVE Pow(_, _)
Pow(b, n) == IF n = 0 THEN 1 ELSE b * Pow(b, n - 1)

Min(a, b) == IF a <= b THEN a ELSE b

\* Variant for C8: the retry-after value used as it comes, not clamped.
calculate_delay_RawRetryAfter(attempt, initial_delay, max_delay, backoff_factor, retry_after, jitter) ==
    IF retry_after # None
    THEN retry_after
    ELSE Min(initial_delay * Pow(backoff_factor, attempt) + jitter, max_delay)

\* Variant for C9: the jitter added after the clamp.
calculate_delay_JitterAfterClamp(attempt, initial_delay, max_delay, backoff_factor, retry_after, jitter) ==
    IF retry_after # None
    THEN Min(retry_after, max_delay)
    ELSE Min(initial_delay * Pow(backoff_factor, attempt), max_delay) + jitter

\* Variant for C10: the initial delay divided by the backoff term.
calculate_delay_Shrinking(attempt, initial_delay, max_delay, backoff_factor, retry_after, jitter) ==
    IF retry_after # None
    THEN Min(retry_after, max_delay)
    ELSE Min(initial_delay \div Pow(backoff_factor, attempt) + jitter, max_delay)

\* jitter stands for the draw secrets.SystemRandom().random() in [0, 1) s.
calculate_delay(attempt, initial_delay, max_delay, backoff_factor, retry_after, jitter) ==
    IF retry_after # None
    THEN Min(retry_after, max_delay)
    ELSE Min(initial_delay * Pow(backoff_factor, attempt) + jitter, max_delay)

\* ------------------------------------------------- inputs of the model

\* The value a successful attempt returns.
Values == {"success", "other"}

\* The error objects the wrapped operation raises in the model.
RaisedErrors ==
    { GenericError(<<"Boom">>),
      GenericError(<<"Connection", "reset">>),
      ValidationError(<<"invalid", "query">>),
      ConfluenceAPIError(<<"Boom">>, None),
      ConfluenceAPIError(<<"bad", "request">>, 400),
      ConfluenceAPIError(<<"server", "error">>, 500),
      ConfluenceAuthenticationError(<<"Authentication", "failed">>),
      ConfluenceAuthenticationError(<<"Connection", "timeout">>),
      ConfluencePermissionError(<<"service", "unavailable">>),
      ConfluenceNotFoundError,
      ConfluenceRateLimitError(None),
      ConfluenceRateLimitError(TicksPerSecond),
      ConfluenceRateLimitError(100 * TicksPerSecond) }

\* The error object raised by the attempt with index k: Python objects have
\* an identity, here the index of the attempt that raised them.
Instance(e, k) ==
    [f \in DOMAIN e \cup {"id"} |-> IF f = "id" THEN k ELSE e[f]]

\* The draws of the jitter, in ticks: the ends of [0, 1) second.
JitterValues == {0, TicksPerSecond - 1}

\* The retryable_errors argument: None (not given), a tuple of classes, or
\* another collection of classes (a list, a set).
NotGiven == [given |-> FALSE, is_tuple |-> FALSE, types |-> {}]

Given(types) == [given |-> TRUE, is_tuple |-> TRUE, types |-> types]

GivenList(types) == [given |-> TRUE, is_tuple |-> FALSE, types |-> types]

RetryableErrorsArgs ==
    { NotGiven,
      Given({}),
      Given({"ConfluenceAPIError"}),
      Given({"ConfluenceAuthenticationError", "ValidationError"}),
      GivenList({"ConfluenceRateLimitError"}) }

\* bool(retryable_errors): None and an empty collection are both falsy.
Truthy(retryable_errors) == retryable_errors.given /\ retryable_errors.types # {}

\* The arguments of retry_with_backoff.
Policies ==
    { p \in [ max_retries      : 0..MaxRetriesBound,
              initial_delay    : {1, TicksPerSecond},
              max_delay        : {(3 * TicksPerSecond) \div 2},
              backoff_factor   : {2, 3},
              retryable_errors : RetryableErrorsArgs,
              on_retry         : BOOLEAN ] :
        p.max_delay >= p.initial_delay }

\* -------------------------------------------------------------- the state

VARIABLES
    policy,          \* the arguments the decorator was built with
    pc,              \* where the call of wrapper stands
    attempt,         \* the loop variable of "for attempt in range(...)"
    last_exception,  \* the local last_exception
    delay,           \* the local delay
    log,             \* what the call did to its collaborators, in order
    result,          \* how the call ended
    suspended,       \* the frame of a second call of a wrapper, while not running
    op_pc,           \* where the call of a tool stands
    request,         \* the tool called and its arguments
    remote_calls,    \* the calls made to the Confluence client, in order
    impl_outcome,    \* how the tool's function ended
    tool_outcome,    \* what the caller of the tool received
    include_metrics, \* the argument create_mcp_app was called with
    TOOL_INVOCATIONS, \* Counter, labels (tool_name, status)
    TOOL_DURATION,   \* Histogram, labels (tool_name)
    TOOL_ERRORS,     \* Counter, labels (tool_name, error_type)
    health_pc,       \* where the call of perform_health_check stands
    confluence_client, \* the method of the client the connectivity check finds
    connectivity_runs, \* the executions of the body of check_connectivity
    health_result,   \* what perform_health_check gave its caller
    soup,            \* the parsed body the normalizer is given
    markdown         \* what the normalizer returned

\* The closure variables and the locals of one call of a wrapper.
call_vars == <<policy, pc, attempt, last_exception, delay, log, result>>

\* The state of one call of a tool.
ops_vars == <<op_pc, request, remote_calls, impl_outcome, tool_outcome>>

\* The metrics of the process and the switch that turns their collection on.
metrics_vars == <<include_metrics, TOOL_INVOCATIONS, TOOL_DURATION, TOOL_ERRORS>>

\* The state of one conversion.
html_vars == <<soup, markdown>>

\* The state of one health check.
health_vars == <<health_pc, confluence_client, connectivity_runs, health_result>>

\* The state of the server around the calls of the wrappers.
server_vars == <<ops_vars, metrics_vars, health_vars, html_vars>>

\* What a step of one call of a wrapper cannot touch.
beyond_call == <<suspended, server_vars>>

\* What a step of one call of a tool cannot touch.
beyond_ops == <<call_vars, suspended, health_vars, html_vars>>

\* What a step of a health check cannot touch, the wrapper of its
\* connectivity check apart.
beyond_health == <<suspended, ops_vars, metrics_vars, html_vars>>

vars == <<call_vars, suspended, server_vars>>

NoResult == [kind |-> "none"]

Return(v) == [kind |-> "return", value |-> v]

Raise(e) == [kind |-> "raise", error |-> e]

\* The entries of log.
CallEvent(k)        == [type |-> "call", attempt |-> k]
ReturnEvent(k, v)   == [type |-> "return", attempt |-> k, value |-> v]
RaiseEvent(k, e)    == [type |-> "raise", attempt |-> k, error |-> e]
OnRetryEvent(e, n)  == [type |-> "on_retry", error |-> e, attempt_number |-> n]
SleepEvent(k, d, j) == [type |-> "sleep", attempt |-> k, delay |-> d, jitter |-> j]

\* No second call: nothing is suspended.
NoFrame == [pc |-> "none"]

\* No request has reached the server.
NoRequest == [tool |-> "none"]

NoToolCall ==
    /\ op_pc = "idle"
    /\ request = NoRequest
    /\ remote_calls = <<>>
    /\ impl_outcome = NoResult
    /\ tool_outcome = NoResult

\* A metric with labels has no child until labels(...) is first called on it.
NoChildren == [labels \in {} |-> 0]

\* The metrics as the import of the metrics module leaves them.
NothingRecorded ==
    /\ TOOL_INVOCATIONS = NoChildren
    /\ TOOL_DURATION = NoChildren
    /\ TOOL_ERRORS = NoChildren

\* An application created without metrics.
MetricsOff ==
    /\ include_metrics = FALSE
    /\ NothingRecorded

\* Nothing has been given to the normalizer.
NoConversion ==
    /\ soup = [name |-> "[document]", children |-> <<>>]
    /\ markdown = NoResult

\* No health check has been asked for.
NoHealthCheck ==
    /\ health_pc = "idle"
    /\ confluence_client = "get"
    /\ connectivity_runs = <<>>
    /\ health_result = NoResult

Init ==
    /\ policy \in Policies
    /\ pc = "idle"
    /\ attempt = 0
    /\ last_exception = NoException
    /\ delay = 0
    /\ log = <<>>
    /\ result = NoResult
    /\ suspended = NoFrame
    /\ NoToolCall
    /\ MetricsOff
    /\ NoHealthCheck
    /\ NoConversion

\* ----------------------------------------------------- retry_with_backoff

\* Variant for C4: range(max_retries).
RangeStop_Short(max_retries) == max_retries

\* range(max_retries + 1)
RangeStop(max_retries) == max_retries + 1

\* Variant for C1: the break taken one attempt early.
Exhausted_Early(k, max_retries) == k + 1 >= max_retries

\* "if attempt >= max_retries: break"
Exhausted(k, max_retries) == k >= max_retries

\* isinstance(e, retryable_errors) raises TypeError unless its second
\* argument is a class or a tuple of classes.
IsInstanceRaises(retryable_errors) ==
    Truthy(retryable_errors) /\ ~retryable_errors.is_tuple

\* should_retry of the except block.
should_retry(e, retryable_errors) ==
    IF Truthy(retryable_errors)
    THEN IsInstance(e, retryable_errors.types)
    ELSE is_retryable_error(e)

\* retry_after of the except block.
RetryAfterOf(e) ==
    IF IsInstance(e, {"ConfluenceRateLimitError"}) THEN e.retry_after ELSE None

\* The statements after the loop: raise MaxRetriesExceededError(...).
AllRetriesExhausted(last) ==
    Raise(MaxRetriesExceededError(policy.max_retries, last))

\* Variant for C2: the non-retryable error wrapped like an exhaustion.
Reraise_Wrapped(e) == Raise(MaxRetriesExceededError(policy.max_retries, e))

\* The bare "raise" of the except block: the error in flight, as it is.
Reraise(e) == Raise(e)

\* The caller calls the decorated function: last_exception = None and the
\* loop is entered, or skipped when range(max_retries + 1) is empty.
Invoke ==
    /\ pc = "idle"
    /\ last_exception' = NoException
    /\ attempt' = 0
    /\ IF 0 < RangeStop(policy.max_retries)
       THEN /\ pc' = "loop"
            /\ result' = result
       ELSE /\ pc' = "done"
            /\ result' = AllRetriesExhausted(NoException)
    /\ UNCHANGED <<policy, delay, log>>
    /\ UNCHANGED beyond_call

\* Variant for C12: the next call made without waiting for the sleep to return.
BeginAttempt_NoWait ==
    /\ pc \in {"loop", "sleeping"}
    /\ pc' = "running"
    /\ log' = Append(log, CallEvent(attempt))
    /\ UNCHANGED <<policy, attempt, last_exception, delay, result>>
    /\ UNCHANGED beyond_call

\* "return func(*args, **kwargs)": the operation is entered.
BeginAttempt ==
    /\ pc = "loop"
    /\ pc' = "running"
    /\ log' = Append(log, CallEvent(attempt))
    /\ UNCHANGED <<policy, attempt, last_exception, delay, result>>
    /\ UNCHANGED beyond_call

\* Variant for C3: the value is kept but the loop goes on.
AttemptReturns_NoReturn(v) ==
    /\ pc = "running"
    /\ result' = Return(v)
    /\ log' = Append(log, ReturnEvent(attempt, v))
    /\ IF attempt + 1 < policy.max_retries + 1
       THEN attempt' = attempt + 1 /\ pc' = "loop"
       ELSE attempt' = attempt /\ pc' = "done"
    /\ UNCHANGED <<policy, last_exception, delay>>
    /\ UNCHANGED beyond_call

\* The operation returns v and the wrapper returns it.
AttemptReturns(v) ==
    /\ pc = "running"
    /\ pc' = "done"
    /\ result' = Return(v)
    /\ log' = Append(log, ReturnEvent(attempt, v))
    /\ UNCHANGED <<policy, attempt, last_exception, delay>>
    /\ UNCHANGED beyond_call

\* Variant for C11: the observer told only once the sleep has begun.
RetryLog_ObserverAfterSleep(e, d, j) ==
    <<SleepEvent(attempt, d, j)>>
        \o (IF policy.on_retry THEN <<OnRetryEvent(e, attempt + 1)>> ELSE <<>>)

\* What the except block appends to the log on the way to the sleep.
RetryLog(e, d, j) ==
    (IF policy.on_retry THEN <<OnRetryEvent(e, attempt + 1)>> ELSE <<>>)
        \o <<SleepEvent(attempt, d, j)>>

\* Variant for C28: the kind of the error looked at before the attempt index.
AttemptRaises_ClassifyFirst(err, jitter) ==
    /\ pc = "running"
    /\ LET e == Instance(err, attempt)
           d == calculate_delay(attempt, policy.initial_delay, policy.max_delay,
                                policy.backoff_factor, RetryAfterOf(e), jitter)
           j == IF RetryAfterOf(e) # None THEN None ELSE jitter
       IN  /\ last_exception' = e
           /\ IF IsInstanceRaises(policy.retryable_errors)
              THEN /\ pc' = "done"
                   /\ result' = Raise(TypeError(e))
                   /\ log' = Append(log, RaiseEvent(attempt, e))
                   /\ delay' = delay
              ELSE IF ~should_retry(e, policy.retryable_errors)
              THEN /\ pc' = "done"
                   /\ result' = Reraise(e)
                   /\ log' = Append(log, RaiseEvent(attempt, e))
                   /\ delay' = delay
              ELSE IF Exhausted(attempt, policy.max_retries)
              THEN /\ pc' = "done"
                   /\ result' = AllRetriesExhausted(e)
                   /\ log' = Append(log, RaiseEvent(attempt, e))
                   /\ delay' = delay
              ELSE /\ pc' = "sleeping"
                   /\ result' = result
                   /\ delay' = d
                   /\ log' = Append(log, RaiseEvent(attempt, e)) \o RetryLog(e, d, j)
    /\ UNCHANGED <<policy, attempt>>
    /\ UNCHANGED beyond_call

\* The operation raises err: the except block, up to the start of the sleep.
AttemptRaises(err, jitter) ==
    /\ pc = "running"
    /\ LET e == Instance(err, attempt)
           d == calculate_delay(attempt, policy.initial_delay, policy.max_delay,
                                policy.backoff_factor, RetryAfterOf(e), jitter)
           j == IF RetryAfterOf(e) # None THEN None ELSE jitter
       IN  /\ last_exception' = e
           /\ IF Exhausted(attempt, policy.max_retries)
              THEN /\ pc' = "done"
                   /\ result' = AllRetriesExhausted(e)
                   /\ log' = Append(log, RaiseEvent(attempt, e))
                   /\ delay' = delay
              ELSE IF IsInstanceRaises(policy.retryable_errors)
              THEN /\ pc' = "done"
                   /\ result' = Raise(TypeError(e))
                   /\ log' = Append(log, RaiseEvent(attempt, e))
                   /\ delay' = delay
              ELSE IF ~should_retry(e, policy.retryable_errors)
              THEN /\ pc' = "done"
                   /\ result' = Reraise(e)
                   /\ log' = Append(log, RaiseEvent(attempt, e))
                   /\ delay' = delay
              ELSE /\ pc' = "sleeping"
                   /\ result' = result
                   /\ delay' = d
                   /\ log' = Append(log, RaiseEvent(attempt, e)) \o RetryLog(e, d, j)
    /\ UNCHANGED <<policy, attempt>>
    /\ UNCHANGED beyond_call

\* time.sleep(delay) returns; the for loop takes its next value, or ends.
SleepElapses ==
    /\ pc = "sleeping"
    /\ IF attempt + 1 < RangeStop(policy.max_retries)
       THEN /\ attempt' = attempt + 1
            /\ pc' = "loop"
            /\ result' = result
       ELSE /\ attempt' = attempt
            /\ pc' = "done"
            /\ result' = AllRetriesExhausted(last_exception)
    /\ UNCHANGED <<policy, last_exception, delay, log>>
    /\ UNCHANGED beyond_call

Next ==
    \/ Invoke
    \/ BeginAttempt
    \/ \E v \in Values : AttemptReturns(v)
    \/ \E err \in RaisedErrors, jitter \in JitterValues : AttemptRaises(err, jitter)
    \/ SleepElapses

Spec == Init /\ [][Next]_vars

\* --------------------------------------- retry_with_backoff, async_wrapper

SleepCancelledEvent(k) == [type |-> "sleep_cancelled", attempt |-> k]

\* Variant for C13: a handler that catches whatever is raised.
Caught_Everything(e) == TRUE

\* "except Exception as e": the errors the handler of async_wrapper catches.
Caught(e) == IsInstance(e, {"Exception"})

\* Variant for C14: the observer called with the 0-indexed attempt.
AsyncObserverArgs_ZeroIndexed(e, k) == OnRetryEvent(e, k)

\* "on_retry(e, attempt + 1)" of async_wrapper.
AsyncObserverArgs(e, k) == OnRetryEvent(e, k + 1)

\* The awaited coroutine is first stepped: last_exception = None and the
\* loop is entered, or skipped when range(max_retries + 1) is empty.
AsyncInvoke ==
    /\ pc = "idle"
    /\ last_exception' = NoException
    /\ attempt' = 0
    /\ IF 0 < policy.max_retries + 1
       THEN /\ pc' = "loop"
            /\ result' = result
       ELSE /\ pc' = "done"
            /\ result' = Raise(MaxRetriesExceededError(policy.max_retries,
                                                        NoException))
    /\ UNCHANGED <<policy, delay, log>>
    /\ UNCHANGED beyond_call

\* "return await func(*args, **kwargs)": the operation is entered.
AsyncBeginAttempt ==
    /\ pc = "loop"
    /\ pc' = "running"
    /\ log' = Append(log, CallEvent(attempt))
    /\ UNCHANGED <<policy, attempt, last_exception, delay, result>>
    /\ UNCHANGED beyond_call

\* The awaited operation returns v and the coroutine returns it.
AsyncAttemptReturns(v) ==
    /\ pc = "running"
    /\ pc' = "done"
    /\ result' = Return(v)
    /\ log' = Append(log, ReturnEvent(attempt, v))
    /\ UNCHANGED <<policy, attempt, last_exception, delay>>
    /\ UNCHANGED beyond_call

\* The await of the operation raises err: an error the handler does not
\* catch leaves the coroutine as it is; for the others the except block
\* runs, up to the start of the sleep.
AsyncAttemptRaises(err, jitter) ==
    /\ pc = "running"
    /\ LET e == Instance(err, attempt)
           retry_after == IF IsInstance(e, {"ConfluenceRateLimitError"})
                          THEN e.retry_after ELSE None
           d == calculate_delay(attempt, policy.initial_delay, policy.max_delay,
                                policy.backoff_factor, retry_after, jitter)
           j == IF retry_after # None THEN None ELSE jitter
           stop(outcome) ==
               /\ pc' = "done"
               /\ result' = outcome
               /\ log' = Append(log, RaiseEvent(attempt, e))
               /\ delay' = delay
       IN  IF ~Caught(e)
           THEN stop(Raise(e)) /\ last_exception' = last_exception
           ELSE /\ last_exception' = e
                /\ IF attempt >= policy.max_retries
                   THEN stop(Raise(MaxRetriesExceededError(policy.max_retries, e)))
                   ELSE IF Truthy(policy.retryable_errors)
                           /\ ~policy.retryable_errors.is_tuple
                   THEN stop(Raise(TypeError(e)))
                   ELSE IF ~(IF Truthy(policy.retryable_errors)
                             THEN IsInstance(e, policy.retryable_errors.types)
                             ELSE is_retryable_error(e))
                   THEN stop(Raise(e))
                   ELSE /\ pc' = "sleeping"
                        /\ result' = result
                        /\ delay' = d
                        /\ log' = Append(log, RaiseEvent(attempt, e))
                                    \o (IF policy.on_retry
                                        THEN <<AsyncObserverArgs(e, attempt)>>
                                        ELSE <<>>)
                                    \o <<SleepEvent(attempt, d, j)>>
    /\ UNCHANGED <<policy, attempt>>
    /\ UNCHANGED beyond_call

\* "await asyncio.sleep(delay)" returns; the for loop takes its next value,
\* or ends.
AsyncSleepElapses ==
    /\ pc = "sleeping"
    /\ IF attempt + 1 < policy.max_retries + 1
       THEN /\ attempt' = attempt + 1
            /\ pc' = "loop"
            /\ result' = result
       ELSE /\ attempt' = attempt
            /\ pc' = "done"
            /\ result' = Raise(MaxRetriesExceededError(policy.max_retries,
                                                        last_exception))
    /\ UNCHANGED <<policy, last_exception, delay, log>>
    /\ UNCHANGED beyond_call

\* The task is cancelled while the coroutine waits in asyncio.sleep: the
\* await raises CancelledError inside the except block, which has no handler
\* for it.
AsyncSleepCancelled ==
    /\ pc = "sleeping"
    /\ pc' = "done"
    /\ result' = Raise(Instance(CancelledError, attempt))
    /\ log' = Append(log, SleepCancelledEvent(attempt))
    /\ UNCHANGED <<policy, attempt, last_exception, delay>>
    /\ UNCHANGED beyond_call

\* What the awaited operation raises: its own errors, or the cancellation
\* of the task passing through it.
AsyncRaisedErrors == RaisedErrors \cup {CancelledError}

AsyncNext ==
    \/ AsyncInvoke
    \/ AsyncBeginAttempt
    \/ \E v \in Values : AsyncAttemptReturns(v)
    \/ \E err \in AsyncRaisedErrors, jitter \in JitterValues :
           AsyncAttemptRaises(err, jitter)
    \/ AsyncSleepElapses
    \/ AsyncSleepCancelled

\* One call of a decorated coroutine function.
SpecAsync == Init /\ [][AsyncNext]_vars

\* The errors the operation raises where the two wrappers are compared: one
\* for each way through the except block.
VariantErrors ==
    { GenericError(<<"Boom">>),
      ValidationError(<<"invalid", "query">>),
      ConfluenceAPIError(<<"bad", "request">>, 400),
      ConfluenceAPIError(<<"server", "error">>, 500),
      ConfluenceAuthenticationError(<<"Connection", "timeout">>),
      ConfluenceRateLimitError(None),
      ConfluenceRateLimitError(TicksPerSecond) }

\* "if asyncio.iscoroutinefunction(func): return async_wrapper;
\* return wrapper": a call is served by one of the two wrappers.  Here each
\* step of a call is taken by the code of either, fed the same outcomes of
\* the operation, so that a step one of them takes and the other does not
\* shows as a step of this specification.
VariantsNext ==
    \/ Invoke
    \/ AsyncInvoke
    \/ BeginAttempt
    \/ AsyncBeginAttempt
    \/ \E v \in Values : AttemptReturns(v)
    \/ \E v \in Values : AsyncAttemptReturns(v)
    \/ \E err \in VariantErrors, jitter \in JitterValues : AttemptRaises(err, jitter)
    \/ \E err \in VariantErrors, jitter \in JitterValues :
           AsyncAttemptRaises(err, jitter)
    \/ SleepElapses
    \/ AsyncSleepElapses

SpecVariants == Init /\ [][VariantsNext]_vars

\* ----------------------------------------------------- retry_on_predicate

\* The predicates the decorator is built with: lambda e: True, lambda e:
\* False, and the default classifier.
Predicates == {"always", "never", "is_retryable_error"}

\* predicate(e)
Accepts(predicate, e) ==
    IF predicate = "always" THEN TRUE
    ELSE IF predicate = "never" THEN FALSE
    ELSE is_retryable_error(e)

\* The arguments of retry_on_predicate, and whether the decorated function
\* is a coroutine function, which selects async_wrapper.
PredicatePolicies ==
    [ max_retries    : 0..MaxRetriesBound,
      initial_delay  : {1, TicksPerSecond},
      max_delay      : {(3 * TicksPerSecond) \div 2},
      backoff_factor : {2},
      predicate      : Predicates,
      is_coroutine   : BOOLEAN ]

\* The caller calls the decorated function: last_exception = None and the
\* loop is entered, or skipped when range(max_retries + 1) is empty.
PredicateInvoke ==
    /\ pc = "idle"
    /\ last_exception' = NoException
    /\ attempt' = 0
    /\ IF 0 < policy.max_retries + 1
       THEN /\ pc' = "loop"
            /\ result' = result
       ELSE /\ pc' = "done"
            /\ result' = Raise(MaxRetriesExceededError(policy.max_retries,
                                                        NoException))
    /\ UNCHANGED <<policy, delay, log>>
    /\ UNCHANGED beyond_call

\* "return func(*args, **kwargs)", awaited in async_wrapper: the operation
\* is entered.
PredicateBeginAttempt ==
    /\ pc = "loop"
    /\ pc' = "running"
    /\ log' = Append(log, CallEvent(attempt))
    /\ UNCHANGED <<policy, attempt, last_exception, delay, result>>
    /\ UNCHANGED beyond_call

\* The operation returns v and the wrapper returns it.
PredicateAttemptReturns(v) ==
    /\ pc = "running"
    /\ pc' = "done"
    /\ result' = Return(v)
    /\ log' = Append(log, ReturnEvent(attempt, v))
    /\ UNCHANGED <<policy, attempt, last_exception, delay>>
    /\ UNCHANGED beyond_call

\* The operation raises err: an error that is no Exception passes the
\* handler; for the others the except block runs: the bare raise on the last
\* permitted attempt or when the predicate refuses the error, otherwise the
\* delay, up to the start of the sleep.
PredicateAttemptRaises(err, jitter) ==
    /\ pc = "running"
    /\ IsInstance(err, {"Exception"}) \/ policy.is_coroutine
    /\ LET e == Instance(err, attempt)
           d == calculate_delay(attempt, policy.initial_delay, policy.max_delay,
                                policy.backoff_factor, None, jitter)
       IN  IF ~IsInstance(e, {"Exception"})
           THEN /\ pc' = "done"
                /\ result' = Raise(e)
                /\ log' = Append(log, RaiseEvent(attempt, e))
                /\ UNCHANGED <<last_exception, delay>>
           ELSE /\ last_exception' = e
                /\ IF attempt >= policy.max_retries
                      \/ ~Accepts(policy.predicate, e)
                   THEN /\ pc' = "done"
                        /\ result' = Raise(e)
                        /\ log' = Append(log, RaiseEvent(attempt, e))
                        /\ delay' = delay
                   ELSE /\ pc' = "sleeping"
                        /\ result' = result
                        /\ delay' = d
                        /\ log' = Append(log, RaiseEvent(attempt, e))
                                    \o <<SleepEvent(attempt, d, jitter)>>
    /\ UNCHANGED <<policy, attempt>>
    /\ UNCHANGED beyond_call

\* The sleep returns; the for loop takes its next value, or ends and the
\* statement after it raises MaxRetriesExceededError.
PredicateSleepElapses ==
    /\ pc = "sleeping"
    /\ IF attempt + 1 < policy.max_retries + 1
       THEN /\ attempt' = attempt + 1
            /\ pc' = "loop"
            /\ result' = result
       ELSE /\ attempt' = attempt
            /\ pc' = "done"
            /\ result' = Raise(MaxRetriesExceededError(policy.max_retries,
                                                        last_exception))
    /\ UNCHANGED <<policy, last_exception, delay, log>>
    /\ UNCHANGED beyond_call

\* The task is cancelled while async_wrapper waits in asyncio.sleep.
PredicateSleepCancelled ==
    /\ pc = "sleeping"
    /\ policy.is_coroutine
    /\ pc' = "done"
    /\ result' = Raise(Instance(CancelledError, attempt))
    /\ log' = Append(log, SleepCancelledEvent(attempt))
    /\ UNCHANGED <<policy, attempt, last_exception, delay>>
    /\ UNCHANGED beyond_call

InitPredicate ==
    /\ policy \in PredicatePolicies
    /\ pc = "idle"
    /\ attempt = 0
    /\ last_exception = NoException
    /\ delay = 0
    /\ log = <<>>
    /\ result = NoResult
    /\ suspended = NoFrame
    /\ NoToolCall
    /\ MetricsOff
    /\ NoHealthCheck
    /\ NoConversion

PredicateNext ==
    \/ PredicateInvoke
    \/ PredicateBeginAttempt
    \/ \E v \in Values : PredicateAttemptReturns(v)
    \/ \E err \in VariantErrors \cup {CancelledError}, jitter \in JitterValues :
           PredicateAttemptRaises(err, jitter)
    \/ PredicateSleepElapses
    \/ PredicateSleepCancelled

SpecPredicate == InitPredicate /\ [][PredicateNext]_vars

\* ------------------------------------------------- two calls at a time

\* All the locals and closure variables of the call that is running.
RunningFrame(c) ==
    [call |-> c, policy |-> policy, pc |-> pc, attempt |-> attempt,
     last_exception |-> last_exception, delay |-> delay, log |-> log,
     result |-> result]

\* The call that is running when the other one is suspended.
RunningCall == IF suspended.call = 1 THEN 2 ELSE 1

\* The two decorated operations are different functions: each raises errors
\* of its own.
ErrorsOfCall(c) ==
    IF c = 1
    THEN { GenericError(<<"Boom">>),
           ConfluenceAuthenticationError(<<"Authentication", "failed">>) }
    ELSE { ConfluenceAPIError(<<"server", "error">>, 500),
           ConfluenceAPIError(<<"bad", "request">>, 400),
           ConfluenceRateLimitError(TicksPerSecond) }

\* The policies of the two decorated operations.
TwoCallPolicies ==
    [ max_retries      : 0..TwoCallsMaxRetries,
      initial_delay    : {1, TicksPerSecond},
      max_delay        : {(3 * TicksPerSecond) \div 2},
      backoff_factor   : {2},
      retryable_errors : {NotGiven},
      on_retry         : {TRUE} ]

\* Two threads are about to call two decorated functions.
InitTwoCalls ==
    /\ policy \in TwoCallPolicies
    /\ pc = "idle"
    /\ attempt = 0
    /\ last_exception = NoException
    /\ delay = 0
    /\ log = <<>>
    /\ result = NoResult
    /\ \E p \in TwoCallPolicies :
          suspended = [call |-> 2, policy |-> p, pc |-> "idle", attempt |-> 0,
                       last_exception |-> NoException, delay |-> 0,
                       log |-> <<>>, result |-> NoResult]
    /\ NoToolCall
    /\ MetricsOff
    /\ NoHealthCheck
    /\ NoConversion

\* Variant for C15: last_exception kept in the scope of the decorator, one
\* cell for all the calls of the decorated function.
Switch_SharedLastException ==
    /\ suspended # NoFrame
    /\ suspended' = RunningFrame(RunningCall)
    /\ policy' = suspended.policy
    /\ pc' = suspended.pc
    /\ attempt' = suspended.attempt
    /\ last_exception' = last_exception
    /\ delay' = suspended.delay
    /\ log' = suspended.log
    /\ result' = suspended.result
    /\ UNCHANGED server_vars

\* The scheduler takes the processor from the running call and gives it to
\* the other: each call has a frame of its own for the locals of wrapper,
\* and a closure of its own for the arguments of the decorator.
Switch ==
    /\ suspended # NoFrame
    /\ suspended' = RunningFrame(RunningCall)
    /\ policy' = suspended.policy
    /\ pc' = suspended.pc
    /\ attempt' = suspended.attempt
    /\ last_exception' = suspended.last_exception
    /\ delay' = suspended.delay
    /\ log' = suspended.log
    /\ result' = suspended.result
    /\ UNCHANGED server_vars

TwoCallsNext ==
    \/ Invoke
    \/ BeginAttempt
    \/ AttemptReturns("success")
    \/ \E err \in ErrorsOfCall(RunningCall) : AttemptRaises(err, 0)
    \/ SleepElapses
    \/ Switch

SpecTwoCalls == InitTwoCalls /\ [][TwoCallsNext]_vars

\* ------------------------------------------------------------ validators

\* A text is the sequence of its characters.  The parts of a formatted
\* message: a literal of the source, a text, a number.
Lit(word) == [lit |-> word]
Str(text) == [str |-> text]
Num(n)    == [int |-> n]

Lits(words) == [i \in 1..Len(words) |-> Lit(words[i])]

MIN_LIMIT == 1
MAX_LIMIT == 100
MIN_QUERY_LENGTH == 1
MAX_QUERY_LENGTH == 500
MIN_SPACE_KEY_LENGTH == 1
MAX_SPACE_KEY_LENGTH == 10

LowerCase ==
    << "a", "b", "c", "d", "e", "f", "g", "h", "i", "j", "k", "l", "m",
       "n", "o", "p", "q", "r", "s", "t", "u", "v", "w", "x", "y", "z" >>

UpperCase ==
    << "A", "B", "C", "D", "E", "F", "G", "H", "I", "J", "K", "L", "M",
       "N", "O", "P", "Q", "R", "S", "T", "U", "V", "W", "X", "Y", "Z" >>

DigitChars == << "0", "1", "2", "3", "4", "5", "6", "7", "8", "9" >>

RangeOf(seq) == {seq[i] : i \in DOMAIN seq}

Whitespace == {" ", "\t", "\n"}

\* str.strip()
RECURSIVE LStrip(_)
LStrip(text) ==
    IF text # <<>> /\ Head(text) \in Whitespace THEN LStrip(Tail(text)) ELSE text

RECURSIVE RStrip(_)
RStrip(text) ==
    IF text # <<>> /\ text[Len(text)] \in Whitespace
    THEN RStrip(SubSeq(text, 1, Len(text) - 1))
    ELSE text

Strip(text) == RStrip(LStrip(text))

\* str.upper()
UpperChar(c) ==
    IF c \in RangeOf(LowerCase)
    THEN UpperCase[CHOOSE i \in DOMAIN LowerCase : LowerCase[i] = c]
    ELSE c

Upper(text) == [i \in 1..Len(text) |-> UpperChar(text[i])]

\* PAGE_ID_PATTERN, ^[a-zA-Z0-9_-]+$, matched against a stripped text.
PAGE_ID_PATTERN(text) ==
    /\ Len(text) >= 1
    /\ \A i \in 1..Len(text) :
          text[i] \in RangeOf(LowerCase) \cup RangeOf(UpperCase)
                          \cup RangeOf(DigitChars) \cup {"_", "-"}

\* SPACE_KEY_PATTERN, ^[A-Z0-9]+(-[A-Z0-9]+)?$, matched against a stripped
\* text: one run of capitals and digits, or two joined by one hyphen.
SPACE_KEY_PATTERN(text) ==
    LET word(a, b) ==
            /\ a <= b
            /\ \A i \in a..b : text[i] \in RangeOf(UpperCase) \cup RangeOf(DigitChars)
    IN  \/ word(1, Len(text))
        \/ \E h \in 1..Len(text) :
              text[h] = "-" /\ word(1, h - 1) /\ word(h + 1, Len(text))

\* What a validator gives: the cleaned value, or the error it raises.
Valid(value) == [ok |-> TRUE, value |-> value]
Invalid(error) == [ok |-> FALSE, error |-> error]

InvalidQueryError(query, reason) ==
    [cls |-> "InvalidQueryError", status_code |-> None, retry_after |-> None,
     msg |-> <<"Invalid", "search", "query:">>, value |-> Str(query),
     reason |-> <<Lit("-"), Lit(reason)>>]

InvalidPageIdError(page_id) ==
    [cls |-> "InvalidPageIdError", status_code |-> None, retry_after |-> None,
     msg |-> <<"Invalid", "page", "ID:">>, value |-> Str(page_id),
     reason |-> <<>>]

InvalidSpaceKeyError(space) ==
    [cls |-> "InvalidSpaceKeyError", status_code |-> None, retry_after |-> None,
     msg |-> <<"Invalid", "space", "key:">>, value |-> Str(space),
     reason |-> <<>>]

InvalidLimitError(limit) ==
    [cls |-> "InvalidLimitError", status_code |-> None, retry_after |-> None,
     msg |-> <<"Invalid", "limit:">>, value |-> limit,
     reason |-> <<Lit(". Must be between"), Num(MIN_LIMIT), Lit("and"),
                  Num(MAX_LIMIT)>>]

validate_query(query) ==
    IF query = <<>>
    THEN Invalid(InvalidQueryError(query, "Query cannot be empty"))
    ELSE IF Len(query) < MIN_QUERY_LENGTH
    THEN Invalid(InvalidQueryError(query, "Query must be at least MIN_QUERY_LENGTH characters"))
    ELSE IF Len(query) > MAX_QUERY_LENGTH
    THEN Invalid(InvalidQueryError(query, "Query must be at most MAX_QUERY_LENGTH characters"))
    ELSE IF Strip(query) = <<>>
    THEN Invalid(InvalidQueryError(query, "Query cannot be only whitespace"))
    ELSE Valid(Strip(query))

validate_page_id(page_id) ==
    IF page_id = <<>>
    THEN Invalid(InvalidPageIdError(page_id))
    ELSE IF Len(Strip(page_id)) < 1
    THEN Invalid(InvalidPageIdError(Strip(page_id)))
    ELSE IF ~PAGE_ID_PATTERN(Strip(page_id))
    THEN Invalid(InvalidPageIdError(Strip(page_id)))
    ELSE Valid(Strip(page_id))

validate_space_key(space) ==
    LET key == Upper(Strip(space)) IN
    IF space = <<>>
    THEN Invalid(InvalidSpaceKeyError(space))
    ELSE IF Len(key) < MIN_SPACE_KEY_LENGTH
    THEN Invalid(InvalidSpaceKeyError(key))
    ELSE IF Len(key) > MAX_SPACE_KEY_LENGTH
    THEN Invalid(InvalidSpaceKeyError(key))
    ELSE IF ~SPACE_KEY_PATTERN(key)
    THEN Invalid(InvalidSpaceKeyError(key))
    ELSE Valid(key)

\* int(text) for a text of decimal digits with spaces around it; for any
\* other text of the model int raises ValueError.
IsDecimal(text) ==
    Len(text) >= 1 /\ \A i \in 1..Len(text) : text[i] \in RangeOf(DigitChars)

DigitValue(c) == (CHOOSE i \in DOMAIN DigitChars : DigitChars[i] = c) - 1

RECURSIVE DecimalValue(_)
DecimalValue(text) ==
    IF text = <<>> THEN 0
    ELSE 10 * DecimalValue(SubSeq(text, 1, Len(text) - 1))
             + DigitValue(text[Len(text)])

\* A limit reaches the validator as an int or as a text.
validate_limit(limit) ==
    IF "int" \notin DOMAIN limit /\ ~IsDecimal(Strip(limit.str))
    THEN Invalid(InvalidLimitError(limit))
    ELSE LET n == IF "int" \in DOMAIN limit THEN limit.int
                  ELSE DecimalValue(Strip(limit.str))
         IN  IF n < MIN_LIMIT \/ n > MAX_LIMIT
             THEN Invalid(InvalidLimitError(Num(n)))
             ELSE Valid(n)

\* -------------------------------------------------------- error handling

\* e.message of the errors of src/core/exceptions.py, str(e) of the others;
\* MaxRetriesExceededError has the message retry_with_backoff gives it.
Message(e) ==
    IF e.cls = "MaxRetriesExceededError"
    THEN <<Lit("Max"), Lit("retries"), Num(e.total_retries), Lit("exceeded"),
           Lit("for"), Lit("test_func")>>
    ELSE IF "value" \in DOMAIN e
    THEN Lits(e.msg) \o <<e.value>> \o e.reason
    ELSE Lits(e.msg)

\* Variant for C20: no handler for the errors that are not of this server.
handle_api_errors_NoCatchAll(outcome) ==
    IF outcome.kind # "raise" THEN outcome
    ELSE LET e == outcome.error IN
         IF IsInstance(e, {"ConfluenceMCPError"})
         THEN Return(<<Lit("Error:")>> \o Message(e))
         ELSE outcome

\* wrapper of handle_api_errors: the except clauses in their order.
handle_api_errors(outcome) ==
    IF outcome.kind # "raise" THEN outcome
    ELSE LET e == outcome.error IN
         IF IsInstance(e, {"ConfluenceNotFoundError"})
         THEN Return(<<Lit("Error:")>> \o Message(e))
         ELSE IF IsInstance(e, {"ConfluenceAuthenticationError"})
         THEN Return(<<Lit("Error:"), Lit("Authentication failed."),
                       Lit("Please check your credentials.")>>)
         ELSE IF IsInstance(e, {"ConfluencePermissionError"})
         THEN Return(<<Lit("Error:"), Lit("Permission denied."),
                       Lit("You don't have access to this resource.")>>)
         ELSE IF IsInstance(e, {"ConfluenceRateLimitError"})
         THEN IF e.retry_after # None /\ e.retry_after # 0
              THEN Return(<<Lit("Error:"), Lit("Rate limit exceeded."),
                            Lit("Please try again in"), Num(e.retry_after),
                            Lit("seconds.")>>)
              ELSE Return(<<Lit("Error:"), Lit("Rate limit exceeded."),
                            Lit("Please try again later.")>>)
         ELSE IF IsInstance(e, {"ConfluenceAPIError"})
         THEN Return(<<Lit("Error:")>> \o Message(e))
         ELSE IF IsInstance(e, {"ConfluenceMCPError"})
         THEN Return(<<Lit("Error:")>> \o Message(e))
         ELSE IF IsInstance(e, {"MaxRetriesExceededError"})
         THEN Return(<<Lit("Error:"), Lit("Operation failed after multiple attempts."),
                       Lit("Please try again later.")>>)
         ELSE IF IsInstance(e, {"Exception"})
         THEN Return(<<Lit("Error:"), Lit("An unexpected error occurred:")>>
                         \o Message(e))
         ELSE outcome

\* wrapper of log_api_call: logs, and hands on what func returned or raised.
log_api_call(outcome) == outcome

\* -------------------------------------------------------------- html_utils

\* A node of the tree BeautifulSoup(html_content, 'html.parser') builds: a
\* NavigableString carries text, a Tag a name, attributes and children.
NoAttrs == [class |-> <<>>, href |-> <<>>, src |-> <<>>, alt |-> <<>>]

NavigableString(text) ==
    [name |-> "#text", text |-> text, attrs |-> NoAttrs, children |-> <<>>]

Tag(name, attrs, children) ==
    [name |-> name, text |-> <<>>, attrs |-> attrs, children |-> children]

Element(name, children) == Tag(name, NoAttrs, children)

\* The object BeautifulSoup returns: the root of the tree.
Soup(children) == Element("[document]", children)

\* isinstance(element, str)
IsString(node) == node.name = "#text"

\* The character U+0060, which a string of this language cannot hold.
Backtick == "U+0060"

\* sep.join(parts)
RECURSIVE Join(_, _)
Join(parts, sep) ==
    IF parts = <<>> THEN <<>>
    ELSE IF Len(parts) = 1 THEN parts[1]
    ELSE parts[1] \o sep \o Join(Tail(parts), sep)

\* text.split('\n')
RECURSIVE Split(_, _)
Split(text, sep) ==
    IF \E i \in DOMAIN text : text[i] = sep
    THEN LET i == CHOOSE k \in DOMAIN text :
                      text[k] = sep /\ \A j \in 1..(k - 1) : text[j] # sep
         IN  <<SubSeq(text, 1, i - 1)>> \o Split(SubSeq(text, i + 1, Len(text)), sep)
    ELSE <<text>>

\* text.startswith(prefix)
StartsWith(text, prefix) ==
    Len(text) >= Len(prefix) /\ SubSeq(text, 1, Len(prefix)) = prefix

\* text.replace(old, new), old not empty
RECURSIVE Replace(_, _, _)
Replace(text, old, new) ==
    IF Len(text) < Len(old) THEN text
    ELSE IF StartsWith(text, old)
    THEN new \o Replace(SubSeq(text, Len(old) + 1, Len(text)), old, new)
    ELSE <<Head(text)>> \o Replace(Tail(text), old, new)

\* c * n
Repeat(c, n) == [i \in 1..n |-> c]

\* element.get_text(): the strings under the element, as they are.
RECURSIVE get_text(_)
get_text(node) ==
    IF IsString(node) THEN node.text
    ELSE Join([i \in DOMAIN node.children |-> get_text(node.children[i])], <<>>)

\* The strings under the element, each stripped, the empty ones dropped.
RECURSIVE stripped_strings(_)
stripped_strings(node) ==
    IF IsString(node)
    THEN IF Strip(node.text) = <<>> THEN <<>> ELSE <<Strip(node.text)>>
    ELSE Join([i \in DOMAIN node.children |->
                   stripped_strings(node.children[i])], <<>>)

\* element.get_text(strip=True)
get_text_strip(node) == Join(stripped_strings(node), <<>>)

\* element.find_all(names): the descendants with one of the names, in
\* document order.
RECURSIVE find_all(_, _)
find_all(element, names) ==
    Join([i \in DOMAIN element.children |->
             (IF element.children[i].name \in names
              THEN <<element.children[i]>> ELSE <<>>)
                 \o find_all(element.children[i], names)], <<>>)

\* element.find_all(names, recursive=False): children only.
find_children(element, names) ==
    Join([i \in DOMAIN element.children |->
             IF element.children[i].name \in names
             THEN <<element.children[i]>> ELSE <<>>], <<>>)

\* tag.decompose() for every script, style and noscript tag of the tree.
RECURSIVE Decompose(_)
Decompose(node) ==
    [node EXCEPT !.children =
        Join([i \in DOMAIN node.children |->
                 IF node.children[i].name \in {"script", "style", "noscript"}
                 THEN <<>> ELSE <<Decompose(node.children[i])>>], <<>>)]

\* What get_element_text appends for one child.
InlinePart(child) ==
    IF IsString(child) THEN child.text
    ELSE LET text == get_text_strip(child)
         IN  IF child.name \in {"strong", "b"}
             THEN IF text # <<>> THEN <<"*", "*">> \o text \o <<"*", "*">> ELSE <<>>
             ELSE IF child.name \in {"em", "i"}
             THEN IF text # <<>> THEN <<"*">> \o text \o <<"*">> ELSE <<>>
             ELSE IF child.name = "code"
             THEN IF text # <<>> THEN <<Backtick>> \o text \o <<Backtick>> ELSE <<>>
             ELSE IF child.name = "a"
             THEN IF text # <<>> /\ child.attrs.href # <<>>
                  THEN <<"[">> \o text \o <<"]", "(">> \o child.attrs.href \o <<")">>
                  ELSE text
             ELSE text

get_element_text(element) ==
    Join([i \in DOMAIN element.children |-> InlinePart(element.children[i])],
         <<>>)

\* One line of a table.
TableLine(cell_texts) ==
    <<"|", " ">> \o Join(cell_texts, <<" ", "|", " ">>) \o <<" ", "|">>

\* The lines process_table collects for the rows.
MarkdownRows(rows) ==
    Join([i \in DOMAIN rows |->
             LET cells == find_all(rows[i], {"th", "td"})
                 cell_texts == [c \in DOMAIN cells |-> get_element_text(cells[c])]
             IN  IF i = 1
                 THEN << TableLine(cell_texts),
                         TableLine([c \in DOMAIN cells |-> <<"-", "-", "-">>]) >>
                 ELSE << TableLine(cell_texts) >>], <<>>)

process_table(table) ==
    LET rows == find_all(table, {"tr"})
    IN  IF rows = <<>> THEN <<>>
        ELSE Join(MarkdownRows(rows), <<"\n">>) \o <<"\n">>

\* int(tag_name[1]) of a header tag.
HeaderLevel == [h1 |-> 1, h2 |-> 2, h3 |-> 3, h4 |-> 4, h5 |-> 5, h6 |-> 6]

LanguagePrefix == <<"l", "a", "n", "g", "u", "a", "g", "e", "-">>

\* The loop over the classes of a pre tag: lang after it.
RECURSIVE Language(_, _)
Language(classes, lang) ==
    IF classes = <<>> THEN lang
    ELSE Language(Tail(classes),
                  IF StartsWith(Head(classes), LanguagePrefix)
                  THEN Replace(Head(classes), LanguagePrefix, <<>>) \o <<" ">>
                  ELSE lang)

\* The lines of a blockquote: "> " before every line that is not empty.
QuotedLines(lines) ==
    Join([i \in DOMAIN lines |->
             IF lines[i] # <<>> THEN << <<">", " ">> \o lines[i] >> ELSE <<>>],
         <<>>)

\* "- " before an item of ul.
Bullet(i) == <<"-", " ">>

\* f"{i}. " before item i of ol; the lists of the model have fewer than ten
\* items.
Numbered(i) == <<DigitChars[i + 1], ".", " ">>

\* The items of a ul or ol, each after its marker, one per line.
ListItems(element) ==
    LET items == find_children(element, {"li"})
    IN  Join([i \in DOMAIN items |->
                 (IF element.name = "ol" THEN Numbered(i) ELSE Bullet(i))
                     \o get_element_text(items[i])],
             <<"\n">>) \o <<"\n">>

RECURSIVE process_element(_, _)

\* ''.join of the results of the children that are not empty.
ProcessChildren(element) ==
    Join([i \in DOMAIN element.children |->
             process_element(element.children[i], element.name)], <<>>)

process_element(element, parent_name) ==
    IF IsString(element) THEN Strip(element.text)
    ELSE IF element.name \in DOMAIN HeaderLevel
    THEN <<"\n">> \o Repeat("#", HeaderLevel[element.name]) \o <<" ">>
             \o get_element_text(element) \o <<"\n">>
    ELSE IF element.name = "p"
    THEN LET text == Strip(ProcessChildren(element))
         IN  IF text # <<>> THEN text \o <<"\n">> ELSE <<>>
    ELSE IF element.name \in {"b", "strong"}
    THEN <<"*", "*">> \o get_element_text(element) \o <<"*", "*">>
    ELSE IF element.name \in {"i", "em"}
    THEN <<"*">> \o get_element_text(element) \o <<"*">>
    ELSE IF element.name = "code"
    THEN IF parent_name = "pre"
         THEN get_element_text(element)
         ELSE <<Backtick>> \o get_element_text(element) \o <<Backtick>>
    ELSE IF element.name = "pre"
    THEN <<"\n", Backtick, Backtick, Backtick>> \o Language(element.attrs.class, <<>>)
             \o Strip(get_text(element)) \o <<"\n", Backtick, Backtick, Backtick, "\n">>
    ELSE IF element.name = "a"
    THEN IF element.attrs.href # <<>>
         THEN <<"[">> \o get_element_text(element) \o <<"]", "(">>
                  \o element.attrs.href \o <<")">>
         ELSE get_element_text(element)
    ELSE IF element.name \in {"ul", "ol"} THEN ListItems(element)
    ELSE IF element.name = "li" THEN Strip(ProcessChildren(element))
    ELSE IF element.name = "table" THEN process_table(element)
    ELSE IF element.name = "br" THEN <<"\n">>
    ELSE IF element.name = "hr" THEN <<"\n", "-", "-", "-", "\n">>
    ELSE IF element.name = "img"
    THEN IF element.attrs.src # <<>>
         THEN <<"!", "[">> \o element.attrs.alt \o <<"]", "(">>
                  \o element.attrs.src \o <<")">>
         ELSE <<>>
    ELSE IF element.name = "blockquote"
    THEN Join(QuotedLines(Split(get_element_text(element), "\n")), <<"\n">>)
             \o <<"\n">>
    ELSE IF element.name \in {"div", "span", "section", "article", "main", "body"}
    THEN ProcessChildren(element)
    ELSE get_element_text(element)

\* re.sub(r'\n{3,}', '\n\n', text): run counts the newlines just passed.
RECURSIVE CollapseNewlines(_, _)
CollapseNewlines(text, run) ==
    IF text = <<>> THEN <<>>
    ELSE IF Head(text) = "\n"
    THEN (IF run < 2 THEN <<"\n">> ELSE <<>>)
             \o CollapseNewlines(Tail(text), run + 1)
    ELSE <<Head(text)>> \o CollapseNewlines(Tail(text), 0)

\* '\n'.join(line.rstrip() for line in text.split('\n'))
RStripLines(text) ==
    LET lines == Split(text, "\n")
    IN  Join([i \in DOMAIN lines |-> RStrip(lines[i])], <<"\n">>)

\* "# Join and clean up" of html_to_markdown.
CleanUp(joined) ==
    Strip(RStripLines(CollapseNewlines(joined, 0)))

\* html_to_markdown from the parsed tree on: the tags to drop, the elements
\* of the root processed and joined, the clean-up.
MarkdownOf(parsed) == CleanUp(ProcessChildren(Decompose(parsed)))

\* ------------------------------------------- the documents of the model

MaxRows == 3

InlineTags == {"strong", "b", "em", "i", "code", "a", "span"}

\* <name>b</name>, a link with its href.
Inline(name) ==
    Tag(name,
        IF name = "a" THEN [NoAttrs EXCEPT !.href = <<"/", "x">>] ELSE NoAttrs,
        <<NavigableString(<<"b">>)>>)

\* <p>a <name>b</name> c</p> with and without the spaces.
Paragraphs ==
    { Element("p", <<NavigableString(before), Inline(name),
                     NavigableString(after)>>) :
        before \in {<<"a", " ">>, <<"a">>},
        name \in InlineTags,
        after \in {<<" ", "c">>, <<"c">>} }

Cell(name, text) == Element(name, <<NavigableString(text)>>)

\* <tr><th>A</th><th>B</th></tr>, <tr><td>1</td><td>2</td></tr> and a row
\* whose cell holds a line break.
TableRows ==
    { Element("tr", <<Cell("th", <<"A">>), Cell("th", <<"B">>)>>),
      Element("tr", <<Cell("td", <<"1">>), Cell("td", <<"2">>)>>),
      Element("tr", <<Cell("td", <<"x", "\n", "y">>)>>) }

Tables ==
    { Element("table", rows) :
        rows \in UNION { [1..n -> TableRows] : n \in 0..MaxRows } }

\* <pre class="..."><code>...</code></pre>
CodeBlocks ==
    { Tag("pre", [NoAttrs EXCEPT !.class = classes],
          <<Element("code", <<NavigableString(code)>>)>>) :
        classes \in { <<>>, <<LanguagePrefix \o <<"p", "y">>>>,
                      << <<"w", "i", "d", "e">>, LanguagePrefix \o <<"p", "y">> >> },
        code \in { <<"x">>, <<" ", "x", "\n">>,
                   <<"x", "\n", " ", "\n", " ", "\n", "y">> } }

Headers ==
    { Element(name, <<NavigableString(<<"T">>)>>) : name \in DOMAIN HeaderLevel }

Item(text) == Element("li", <<NavigableString(text)>>)

Others ==
    { Element("ul", <<Item(<<"x">>), Item(<<"y">>)>>),
      Element("ol", <<Item(<<"x">>), Item(<<"y">>)>>),
      Element("li", <<NavigableString(<<" ", "x">>)>>),
      Element("br", <<>>),
      Element("hr", <<>>),
      Tag("img", [NoAttrs EXCEPT !.src = <<"a">>, !.alt = <<"A">>], <<>>),
      Element("img", <<>>),
      Element("blockquote", <<NavigableString(<<"q", "\n", "\n", "r">>)>>),
      Element("div", <<Element("script", <<NavigableString(<<"x">>)>>),
                       Element("p", <<NavigableString(<<"T">>)>>)>>),
      Element("div", <<Element("p", <<NavigableString(<<"x", " ">>)>>),
                       Element("br", <<>>), Element("br", <<>>),
                       Element("hr", <<>>)>>),
      Element("custom", <<NavigableString(<<"x", " ">>),
                          Element("em", <<NavigableString(<<" ", "y">>)>>)>>),
      Tag("a", [NoAttrs EXCEPT !.href = <<"/", "x">>],
          <<NavigableString(<<"x">>)>>),
      Element("a", <<NavigableString(<<"x">>)>>),
      Element("code", <<NavigableString(<<"x">>)>>),
      NavigableString(<<" ", "x", "\t">>) }

\* The parsed bodies the normalizer is given: one element, two elements, or
\* nothing at all.
Documents ==
    { Soup(<<>>) }
        \cup { Soup(<<element>>) :
                 element \in Paragraphs \cup Tables \cup CodeBlocks
                                 \cup Headers \cup Others }
        \cup { Soup(<<first, second>>) :
                 first \in Headers, second \in {Element("hr", <<>>)} }

\* BeautifulSoup(html_content, 'html.parser') for the stored bodies of the
\* model: "<p>a <b>b</b></p>", "<pre>x</pre>" and "Hi".
ParsedMarkup ==
    { [markup |-> <<"<", "p", ">", "a", " ", "<", "b", ">", "b", "<", "/", "b",
                    ">", "<", "/", "p", ">">>,
       soup |-> Soup(<<Element("p", <<NavigableString(<<"a", " ">>),
                                      Inline("b")>>)>>)],
      [markup |-> <<"<", "p", "r", "e", ">", "x", "<", "/", "p", "r", "e", ">">>,
       soup |-> Soup(<<Element("pre", <<NavigableString(<<"x">>)>>)>>)],
      [markup |-> <<"H", "i">>,
       soup |-> Soup(<<NavigableString(<<"H", "i">>)>>)] }

BeautifulSoup(html_content) ==
    (CHOOSE parsed \in ParsedMarkup : parsed.markup = html_content).soup

\* Variant for C27: the body handed on as it is stored.
html_to_markdown_Verbatim(html_content) == html_content

html_to_markdown(html_content) ==
    IF html_content = <<>> THEN <<>>
    ELSE MarkdownOf(BeautifulSoup(html_content))

\* The normalizer is given a parsed body and returns its Markdown.
Normalize ==
    /\ markdown = NoResult
    /\ markdown' = Return(MarkdownOf(soup))
    /\ UNCHANGED soup
    /\ UNCHANGED <<call_vars, suspended, ops_vars, metrics_vars, health_vars>>

\* ------------------------------------------------------------- the tools

\* The queries, page ids, space keys and limits the tools are called with.
Queries ==
    { <<>>, <<" ", " ">>, <<"h", "i">>, <<" ", "h", "i", " ">>,
      [i \in 1..MAX_QUERY_LENGTH |-> "a"],
      [i \in 1..(MAX_QUERY_LENGTH + 1) |-> "a"] }

PageIds ==
    { <<>>, <<" ">>, <<"1", "2">>, <<" ", "1", "2", " ">>, <<"a", "-", "B", "_">>,
      <<"p", "@", "1">>, <<"1", " ", "2">> }

SpaceKeys ==
    { <<>>, <<"E", "N", "G">>, <<" ", "e", "n", "g">>, <<"E", "-", "d">>,
      <<"E", "N", "G", "_", "D">>, <<"A", "-", "B", "-", "C">>, <<"-", "A">>,
      [i \in 1..MAX_SPACE_KEY_LENGTH |-> "K"],
      [i \in 1..(MAX_SPACE_KEY_LENGTH + 1) |-> "K"] }

Limits ==
    { Num(MIN_LIMIT - 1), Num(MIN_LIMIT), Num(MAX_LIMIT), Num(MAX_LIMIT + 1),
      Str(<<"1", "0">>), Str(<<"0">>), Str(<<"t", "e", "n">>) }

Requests ==
    [tool : {"search_confluence"}, query : Queries, limit : Limits]
        \cup [tool : {"get_page_content"}, page_id : PageIds,
              convert_to_markdown : BOOLEAN]
        \cup [tool : {"list_pages"}, space : SpaceKeys, limit : Limits]

\* What the Confluence client answers.
SearchResults ==
    { <<>>,
      << [title |-> <<"D", "o", "c">>, id |-> <<"1", "2">>,
          webui |-> <<"/", "x">>] >> }

Pages ==
    { [title |-> <<"D", "o", "c">>, body |-> body] :
        body \in {parsed.markup : parsed \in ParsedMarkup} \cup {<<>>} }

\* The errors the Confluence client raises.
RemoteErrors ==
    { GenericError(<<"Page", "not", "found">>),
      GenericError(<<"Connection", "reset">>),
      ConfluenceAPIError(<<"bad", "request">>, 400),
      ConfluenceAPIError(<<"server", "error">>, 500),
      ConfluenceAuthenticationError(<<"Authentication", "failed">>),
      ConfluencePermissionError(<<"Permission", "denied">>),
      ConfluenceRateLimitError(None),
      ConfluenceRateLimitError(30) }

\* ConfluenceNotFoundError("Page", page_id)
PageNotFound(page_id) ==
    [cls |-> "ConfluenceNotFoundError", status_code |-> 404,
     retry_after |-> None, msg |-> <<"Page", "not", "found:">>,
     value |-> Str(page_id), reason |-> <<>>]

\* What a function under handle_api_errors raises in the tests of the
\* decorator, and under api_call_with_retry.
WrappedErrors ==
    RemoteErrors
        \cup { ConfluenceNotFoundError,
               ValidationError(<<"invalid", "query">>),
               MaxRetriesExceededError(2, GenericError(<<"Boom">>)),
               MaxRetriesExceededError(0, NoException),
               CancelledError }

WrappedOutcomes ==
    {Return(<<Lit("success")>>)} \cup {Raise(e) : e \in WrappedErrors}

\* Variant for C16: the limit handed to the client as it came.
Validated_LimitUnchecked(req) ==
    IF req.tool = "search_confluence"
    THEN IF ~validate_query(req.query).ok THEN validate_query(req.query)
         ELSE Valid([req EXCEPT !.query = validate_query(req.query).value])
    ELSE IF req.tool = "get_page_content"
    THEN IF ~validate_page_id(req.page_id).ok THEN validate_page_id(req.page_id)
         ELSE Valid([req EXCEPT !.page_id = validate_page_id(req.page_id).value])
    ELSE IF ~validate_space_key(req.space).ok THEN validate_space_key(req.space)
         ELSE Valid([req EXCEPT !.space = validate_space_key(req.space).value])

\* "# Validate inputs" of the three functions: the first validator that
\* raises ends the call, otherwise the arguments are replaced by the cleaned
\* values.
Validated(req) ==
    IF req.tool = "search_confluence"
    THEN IF ~validate_query(req.query).ok THEN validate_query(req.query)
         ELSE IF ~validate_limit(req.limit).ok THEN validate_limit(req.limit)
         ELSE Valid([req EXCEPT !.query = validate_query(req.query).value,
                                !.limit = validate_limit(req.limit).value])
    ELSE IF req.tool = "get_page_content"
    THEN IF ~validate_page_id(req.page_id).ok THEN validate_page_id(req.page_id)
         ELSE Valid([req EXCEPT !.page_id = validate_page_id(req.page_id).value])
    ELSE IF ~validate_space_key(req.space).ok THEN validate_space_key(req.space)
         ELSE IF ~validate_limit(req.limit).ok THEN validate_limit(req.limit)
         ELSE Valid([req EXCEPT !.space = validate_space_key(req.space).value,
                                !.limit = validate_limit(req.limit).value])

\* The call the function makes to the client once its inputs are clean.
RemoteCall(req) ==
    IF req.tool = "search_confluence"
    THEN [method |-> "cql", cql |-> <<Lit("text ~"), Str(req.query)>>,
          limit |-> req.limit, outcome |-> NoResult]
    ELSE IF req.tool = "get_page_content"
    THEN [method |-> "get_page_by_id", page_id |-> req.page_id,
          expand |-> "body.storage", outcome |-> NoResult]
    ELSE [method |-> "cql",
          cql |-> <<Lit("space="), Str(req.space), Lit("AND type=page")>>,
          limit |-> req.limit, outcome |-> NoResult]

\* One line of output per item of the results.
RECURSIVE Lines(_)
Lines(items) ==
    IF items = <<>> THEN <<>>
    ELSE << Lit("-"), Str(Head(items).title), Lit("(ID:"), Str(Head(items).id),
            Lit(")"), Lit("Link:"), Lit("base_url"), Lit("/wiki"),
            Str(Head(items).webui) >>
             \o (IF Tail(items) = <<>> THEN <<>> ELSE <<Lit("\n")>>)
             \o Lines(Tail(items))

\* What the function returns for the answer of the client.
Formatted(req, answer) ==
    IF req.tool = "search_confluence"
    THEN IF answer = <<>> THEN <<Lit("No results found.")>> ELSE Lines(answer)
    ELSE IF req.tool = "get_page_content"
    THEN << Lit("Title:"), Str(answer.title), Lit("\n\n"),
            IF req.convert_to_markdown
            THEN Str(html_to_markdown(answer.body))
            ELSE Str(answer.body) >>
    ELSE IF answer = <<>>
         THEN <<Lit("No pages found in space"), Str(req.space)>>
         ELSE Lines(answer)

\* The answers the client can give to the call of req.
Answers(req) ==
    IF req.tool = "get_page_content" THEN Pages ELSE SearchResults

\* Variant for C18: the error of the client left as it is.
ImplRaises_Unchanged(req, e) == Raise(e)

\* How the function ends when the client raises e: get_page_content_impl
\* catches every Exception and raises ConfluenceNotFoundError in its place;
\* the other two have no handler.
ImplRaises(req, e) ==
    IF req.tool = "get_page_content" /\ IsInstance(e, {"Exception"})
    THEN Raise(PageNotFound(req.page_id))
    ELSE Raise(e)

\* ------------------------------------------------------------ metrics

\* counter.labels(...).inc()
Inc(counter, labels) ==
    [l \in DOMAIN counter \cup {labels} |->
        IF l = labels
        THEN (IF l \in DOMAIN counter THEN counter[l] ELSE 0) + 1
        ELSE counter[l]]

\* histogram.labels(...).observe(amount): the observations, in order.
Observe(histogram, labels, amount) ==
    [l \in DOMAIN histogram \cup {labels} |->
        IF l = labels
        THEN Append(IF l \in DOMAIN histogram THEN histogram[l] ELSE <<>>,
                    amount)
        ELSE histogram[l]]

record_tool_invocation(tool_name, status) ==
    TOOL_INVOCATIONS' = Inc(TOOL_INVOCATIONS, <<tool_name, status>>)

record_tool_duration(tool_name, duration) ==
    TOOL_DURATION' = Observe(TOOL_DURATION, <<tool_name>>, duration)

record_tool_error(tool_name, error_type) ==
    TOOL_ERRORS' = Inc(TOOL_ERRORS, <<tool_name, error_type>>)

\* time.time() - start_time, in ticks.
Durations == {0, TicksPerSecond}

\* Variant for C21: the invocation counted as a success before the function
\* is called, and as an error as well when it raises.
ToolBody_SuccessFirst(name, outcome, duration) ==
    IF include_metrics
    THEN /\ IF outcome.kind = "raise" /\ Caught(outcome.error)
            THEN /\ TOOL_INVOCATIONS' =
                       Inc(Inc(TOOL_INVOCATIONS, <<name, "success">>),
                           <<name, "error">>)
                 /\ record_tool_error(name, outcome.error.cls)
            ELSE /\ record_tool_invocation(name, "success")
                 /\ UNCHANGED TOOL_ERRORS
         /\ record_tool_duration(name, duration)
         /\ UNCHANGED include_metrics
    ELSE UNCHANGED metrics_vars

\* The body of a tool around the call of its function, which ended with
\* outcome after duration: under include_metrics the try statement with its
\* except Exception and finally clauses, otherwise the bare call.
ToolBody(name, outcome, duration) ==
    IF include_metrics
    THEN /\ IF outcome.kind = "return"
            THEN /\ record_tool_invocation(name, "success")
                 /\ UNCHANGED TOOL_ERRORS
            ELSE IF Caught(outcome.error)
            THEN /\ record_tool_invocation(name, "error")
                 /\ record_tool_error(name, outcome.error.cls)
            ELSE UNCHANGED <<TOOL_INVOCATIONS, TOOL_ERRORS>>
         /\ record_tool_duration(name, duration)
         /\ UNCHANGED include_metrics
    ELSE UNCHANGED metrics_vars

\* A tool is called: its function validates the inputs and, when they are
\* clean, calls the client; a validation error goes up through log_api_call
\* to handle_api_errors.
CallTool(req) ==
    /\ op_pc = "idle"
    /\ request' = req
    /\ IF Validated(req).ok
       THEN /\ op_pc' = "remote"
            /\ remote_calls' = Append(remote_calls, RemoteCall(Validated(req).value))
            /\ UNCHANGED <<impl_outcome, tool_outcome, metrics_vars>>
       ELSE /\ op_pc' = "done"
            /\ impl_outcome' = Raise(Validated(req).error)
            /\ \E duration \in Durations :
                   ToolBody(req.tool, impl_outcome', duration)
            /\ tool_outcome' =
                   handle_api_errors(log_api_call(Raise(Validated(req).error)))
            /\ UNCHANGED remote_calls
    /\ UNCHANGED beyond_ops

LastCallWith(outcome) ==
    [remote_calls EXCEPT ![Len(remote_calls)].outcome = outcome]

\* The client answers: the function formats the answer and returns it.
RemoteReturns(answer) ==
    /\ op_pc = "remote"
    /\ op_pc' = "done"
    /\ remote_calls' = LastCallWith(Return(answer))
    /\ impl_outcome' = Return(Formatted(Validated(request).value, answer))
    /\ \E duration \in Durations :
           ToolBody(request.tool, impl_outcome', duration)
    /\ tool_outcome' = handle_api_errors(log_api_call(impl_outcome'))
    /\ UNCHANGED <<request, beyond_ops>>

\* The client raises e.
RemoteRaises(e) ==
    /\ op_pc = "remote"
    /\ op_pc' = "done"
    /\ remote_calls' = LastCallWith(Raise(e))
    /\ impl_outcome' = ImplRaises(Validated(request).value, e)
    /\ \E duration \in Durations :
           ToolBody(request.tool, impl_outcome', duration)
    /\ tool_outcome' = handle_api_errors(log_api_call(impl_outcome'))
    /\ UNCHANGED <<request, beyond_ops>>

\* A function under handle_api_errors and log_api_call that makes no call to
\* the client: it returns or raises what it is told to.
CallWrapped(outcome) ==
    /\ op_pc = "idle"
    /\ op_pc' = "done"
    /\ request' = [tool |-> "test_func"]
    /\ impl_outcome' = outcome
    /\ tool_outcome' = handle_api_errors(log_api_call(outcome))
    /\ UNCHANGED <<remote_calls, metrics_vars, beyond_ops>>

\* The server is up, its tools registered, no call made yet.
InitOps ==
    /\ policy = [max_retries |-> 0, initial_delay |-> 1, max_delay |-> 1,
                 backoff_factor |-> 2, retryable_errors |-> NotGiven,
                 on_retry |-> FALSE]
    /\ pc = "idle"
    /\ attempt = 0
    /\ last_exception = NoException
    /\ delay = 0
    /\ log = <<>>
    /\ result = NoResult
    /\ suspended = NoFrame
    /\ NoToolCall
    /\ include_metrics \in BOOLEAN
    /\ NothingRecorded
    /\ NoHealthCheck
    /\ NoConversion

OpsNext ==
    \/ \E req \in Requests : CallTool(req)
    \/ \E answer \in Answers(request) : RemoteReturns(answer)
    \/ \E e \in RemoteErrors : RemoteRaises(e)
    \/ \E outcome \in WrappedOutcomes : CallWrapped(outcome)

SpecOps == InitOps /\ [][OpsNext]_vars

\* ------------------------------------------------------------- health

\* str(e) of an error, as one part of a message.
StrOf(e) == [str_of |-> e.cls, args |-> e.msg]

\* What the client has: check_connectivity calls the first of
\* get_server_info, get and get_current_user that hasattr finds, and none of
\* them on a client without the three (the mock client of the tests).
Clients == {"get_server_info", "get", "get_current_user", "none"}

\* How the call to the client can end.
ProbeOutcomes ==
    {Return("server_info")} \cup {Raise(e) : e \in RemoteErrors}

\* Variant for C30: check_connectivity without its except clause.
check_connectivity_Reraising(outcome, response_time) ==
    IF outcome.kind = "raise"
    THEN outcome
    ELSE Return([status |-> "healthy", response_time_ms |-> response_time,
                 message |-> <<Lit("Successfully connected to Confluence")>>])

\* The body of check_connectivity for a call to the client that ended with
\* outcome (NoResult when no call was made): what the body returns or raises.
check_connectivity(outcome, response_time) ==
    IF outcome.kind = "raise"
    THEN IF IsInstance(outcome.error, {"Exception"})
         THEN Return([status |-> "unhealthy",
                      response_time_ms |-> response_time,
                      message |-> <<Lit("Failed to connect to Confluence:"),
                                    StrOf(outcome.error)>>])
         ELSE outcome
    ELSE Return([status |-> "healthy", response_time_ms |-> response_time,
                 message |-> <<Lit("Successfully connected to Confluence")>>])

check_api_limits ==
    [status |-> "unknown",
     message |-> <<Lit("Rate limit information not available")>>]

\* @retry_with_backoff(max_retries=2, initial_delay=0.5) with the defaults
\* of the other parameters.
HealthRetryPolicy ==
    [max_retries |-> 2, initial_delay |-> TicksPerSecond \div 2,
     max_delay |-> 60 * TicksPerSecond, backoff_factor |-> 2,
     retryable_errors |-> NotGiven, on_retry |-> FALSE]

\* The checks perform_health_check collects, for the way the decorated
\* check_connectivity ended; a BaseException is not caught.
HealthChecks(connectivity) ==
    [server |-> [status |-> "healthy", message |-> <<Lit("Server is running")>>],
     confluence_connectivity |->
         IF connectivity.kind = "return"
         THEN connectivity.value
         ELSE [status |-> "unhealthy", message |-> <<StrOf(connectivity.error)>>],
     api_limits |-> check_api_limits]

\* overall_status after the try statement around check_connectivity.
StatusAfterConnectivity(connectivity) ==
    IF connectivity.kind = "raise" THEN "unhealthy"
    ELSE IF connectivity.value.status # "healthy" THEN "degraded"
    ELSE "healthy"

\* Variant for C22: without the loop over the critical checks.
OverallStatus_NoCriticalLoop(connectivity) ==
    StatusAfterConnectivity(connectivity)

\* overall_status after the loop over the checks: "unhealthy" as soon as a
\* critical check is unhealthy.
OverallStatus(connectivity) ==
    IF \E check_name \in {"server", "confluence_connectivity"} :
           HealthChecks(connectivity)[check_name].status = "unhealthy"
    THEN "unhealthy"
    ELSE StatusAfterConnectivity(connectivity)

HealthCheckResult(connectivity, duration) ==
    [status |-> OverallStatus(connectivity),
     checks |-> HealthChecks(connectivity),
     duration_ms |-> duration]

perform_health_check(connectivity, duration) ==
    IF connectivity.kind = "raise" /\ ~IsInstance(connectivity.error, {"Exception"})
    THEN connectivity
    ELSE Return(HealthCheckResult(connectivity, duration))

\* perform_health_check is called: it builds the checker and calls its
\* check_connectivity.
PerformHealthCheck ==
    /\ health_pc = "idle"
    /\ pc = "idle"
    /\ health_pc' = "connectivity"
    /\ UNCHANGED <<confluence_client, connectivity_runs, health_result>>
    /\ UNCHANGED <<call_vars, beyond_health>>

\* The body of check_connectivity has been entered and not yet run.
BodyEntered == pc = "running" /\ Len(connectivity_runs) = attempt

\* The last execution of the body.
LastRun == connectivity_runs[Len(connectivity_runs)]

\* The body of check_connectivity runs: the call to the client, if the
\* client has one of the three methods, ends with outcome.
RunConnectivityBody(outcome, response_time) ==
    /\ health_pc = "connectivity"
    /\ BodyEntered
    /\ (confluence_client = "none") = (outcome = NoResult)
    /\ connectivity_runs' =
           Append(connectivity_runs,
                  [method |-> confluence_client, outcome |-> outcome,
                   ended |-> check_connectivity(outcome, response_time)])
    /\ UNCHANGED <<health_pc, confluence_client, health_result>>
    /\ UNCHANGED <<call_vars, beyond_health>>

\* The wrapper of retry_with_backoff around check_connectivity takes its
\* next step; the attempt in progress ends the way the body ended.
ConnectivityWrapperStep ==
    /\ health_pc = "connectivity"
    /\ IF pc = "idle" THEN Invoke
       ELSE IF pc = "loop" THEN BeginAttempt
       ELSE IF pc = "sleeping" THEN SleepElapses
       ELSE /\ pc = "running"
            /\ ~BodyEntered
            /\ IF LastRun.ended.kind = "return"
               THEN AttemptReturns(LastRun.ended.value)
               ELSE \E jitter \in JitterValues :
                        AttemptRaises(LastRun.ended.error, jitter)

\* check_connectivity has ended: perform_health_check collects the checks
\* and returns its result.
HealthCheckEnds(duration) ==
    /\ health_pc = "connectivity"
    /\ pc = "done"
    /\ health_pc' = "done"
    /\ health_result' = perform_health_check(result, duration)
    /\ UNCHANGED <<confluence_client, connectivity_runs>>
    /\ UNCHANGED <<call_vars, beyond_health>>

\* A client has been handed to the server; nothing has called it yet.
InitHealth ==
    /\ policy = HealthRetryPolicy
    /\ pc = "idle"
    /\ attempt = 0
    /\ last_exception = NoException
    /\ delay = 0
    /\ log = <<>>
    /\ result = NoResult
    /\ suspended = NoFrame
    /\ NoToolCall
    /\ MetricsOff
    /\ health_pc = "idle"
    /\ confluence_client \in Clients
    /\ connectivity_runs = <<>>
    /\ health_result = NoResult
    /\ NoConversion

HealthNext ==
    \/ PerformHealthCheck
    \/ \E outcome \in ProbeOutcomes \cup {NoResult}, response_time \in Durations :
           RunConnectivityBody(outcome, response_time)
    \/ ConnectivityWrapperStep
    \/ \E duration \in Durations : HealthCheckEnds(duration)

SpecHealth == InitHealth /\ [][HealthNext]_vars

\* ---------------------------------------------- the normalizer, alone

InitHtml ==
    /\ policy = HealthRetryPolicy
    /\ pc = "idle"
    /\ attempt = 0
    /\ last_exception = NoException
    /\ delay = 0
    /\ log = <<>>
    /\ result = NoResult
    /\ suspended = NoFrame
    /\ NoToolCall
    /\ MetricsOff
    /\ NoHealthCheck
    /\ soup \in Documents
    /\ markdown = NoResult

HtmlNext == Normalize

SpecHtml == InitHtml /\ [][HtmlNext]_vars

\* ---------------------------------------------------- reading the log

Indices(type) == {i \in DOMAIN log : log[i].type = type}

\* How often the wrapped operation has been invoked.
NumCalls == Cardinality(Indices("call"))

Done == pc = "done"

\* The call has made an attempt and no attempt of it returned a value.
EveryAttemptFailed == Indices("raise") # {} /\ Indices("return") = {}

\* The verdict of the policy on the error of raise event i; there is none
\* where the isinstance test itself fails.
HasVerdict == ~IsInstanceRaises(policy.retryable_errors)

RetryableAt(i) ==
    HasVerdict /\ should_retry(log[i].error, policy.retryable_errors)

NonRetryableAt(i) ==
    HasVerdict /\ ~should_retry(log[i].error, policy.retryable_errors)

\* The raise event that led to sleep event i: the last one before it.
RaiseBefore(i) == CHOOSE r \in Indices("raise") :
                      r < i /\ \A q \in Indices("raise") : q < i => q <= r

\* Sleep event i was computed by the backoff formula, not from a retry-after.
IsBackoffSleep(i) == log[i].type = "sleep" /\ log[i].jitter # None

\* ------------------------------------------------------------------ C1
\* C1: with max_retries = N, a call in which every attempt failed with a
\* retryable error has invoked the operation exactly N+1 times and ended with
\* MaxRetriesExceeded whose last_exception is the error of the last attempt.
C1_ExhaustionAfterNPlusOne ==
    (Done /\ EveryAttemptFailed /\ \A i \in Indices("raise") : RetryableAt(i))
        => /\ NumCalls = policy.max_retries + 1
           /\ log[Len(log)].type = "raise"
           /\ log[Len(log)].attempt = policy.max_retries
           /\ result = Raise(MaxRetriesExceededError(policy.max_retries,
                                                     log[Len(log)].error))

C1_Witness ==
    /\ Done /\ EveryAttemptFailed
    /\ \A i \in Indices("raise") : RetryableAt(i)
    /\ policy.max_retries = MaxRetriesBound
    /\ NumCalls = MaxRetriesBound + 1
    /\ result.error.cls = "MaxRetriesExceededError"
    /\ result.error.last_exception.id = MaxRetriesBound

\* ------------------------------------------------------------------ C2
\* C2 as stated: whenever an attempt fails with a non-retryable kind, under
\* any policy, the operation has been invoked exactly once in total and the
\* caller receives that error itself.
C2_AsStated ==
    \A i \in Indices("raise") :
        NonRetryableAt(i) => NumCalls = 1 /\ result = Raise(log[i].error)

\* C2 amended: when an attempt other than the last permitted one (index k <
\* max_retries) fails with a non-retryable kind, the call ends there: the
\* operation has been invoked k+1 times (once, when it is the first attempt),
\* nothing is observed or slept, and the caller receives that error itself.
C2_NonRetryablePropagates ==
    \A i \in Indices("raise") :
        (NonRetryableAt(i) /\ log[i].attempt < policy.max_retries)
            => /\ i = Len(log)
               /\ Done
               /\ NumCalls = log[i].attempt + 1
               /\ result = Raise(log[i].error)

C2_Witness ==
    /\ Done
    /\ policy.max_retries >= 1
    /\ NumCalls = 1
    /\ log[Len(log)].type = "raise"
    /\ NonRetryableAt(Len(log))
    /\ result = Raise(log[Len(log)].error)

\* ------------------------------------------------------------------ C3
\* C3: when attempt k returns a value, the call is over with that value: the
\* return is the last thing in the log (no call, observer or sleep follows),
\* and the operation has been invoked k+1 times.
C3_SuccessEndsTheCall ==
    \A i \in Indices("return") :
        /\ i = Len(log)
        /\ Done
        /\ result = Return(log[i].value)
        /\ NumCalls = log[i].attempt + 1
        /\ Cardinality(Indices("raise")) = log[i].attempt

C3_Witness ==
    /\ Done
    /\ log[Len(log)].type = "return"
    /\ log[Len(log)].attempt = MaxRetriesBound
    /\ result = Return("other")

\* ------------------------------------------------------------------ C4
\* C4: whatever the policy and the outcomes, the operation is invoked at most
\* max_retries + 1 times, and a call that has ended invoked it at least once.
C4_AttemptsBounded ==
    /\ NumCalls <= policy.max_retries + 1
    /\ Done => NumCalls >= 1

C4_Witness ==
    /\ Done
    /\ policy.max_retries = MaxRetriesBound
    /\ NumCalls = MaxRetriesBound + 1
    /\ \E i \in Indices("raise") : NonRetryableAt(i)

\* ------------------------------------------------------------------ C5
IsAuthOrPermission(e) ==
    IsInstance(e, {"ConfluenceAuthenticationError", "ConfluencePermissionError"})

\* C5 as stated: under the default classifier or any explicit set, a failure
\* of kind AuthenticationFailed or PermissionDenied ends the call.
C5_AsStated ==
    \A i \in Indices("raise") :
        IsAuthOrPermission(log[i].error) => i = Len(log) /\ Done

\* C5 amended: under the default classifier, and under an explicit set that
\* holds neither kind nor one of their base classes, a failure of kind
\* AuthenticationFailed or PermissionDenied ends the call, whatever its
\* message.
C5_AuthNeverRetriedByDefault ==
    \A i \in Indices("raise") :
        (/\ IsAuthOrPermission(log[i].error)
         /\ \/ ~Truthy(policy.retryable_errors)
            \/ Mro(log[i].error.cls) \cap policy.retryable_errors.types = {})
            => i = Len(log) /\ Done

C5_Witness ==
    /\ Done
    /\ policy.retryable_errors = NotGiven
    /\ policy.max_retries = MaxRetriesBound
    /\ log[Len(log)].type = "raise"
    /\ log[Len(log)].attempt = 1
    /\ log[Len(log)].error.cls = "ConfluenceAuthenticationError"
    /\ Contains(LowerMsg(log[Len(log)].error.msg), <<"timeout">>)
    /\ result = Raise(log[Len(log)].error)

\* ------------------------------------------------------------------ C6
\* C6 as stated: when an explicit set is supplied, an empty one included, a
\* failure before the last permitted attempt is retried exactly when its kind
\* is in the set, and propagated at once when it is not.
C6_AsStated ==
    policy.retryable_errors.given =>
        \A i \in Indices("raise") :
            log[i].attempt < policy.max_retries =>
                IF IsInstance(log[i].error, policy.retryable_errors.types)
                THEN i < Len(log) /\ ~Done
                ELSE i = Len(log) /\ result = Raise(log[i].error)

\* ------------------------------------------------------------------ C7
NoTransienceIndicator(e) ==
    \A pattern \in retryable_patterns : ~Contains(LowerMsg(e.msg), pattern)

\* C7 as stated: an error without a status code whose message matches no
\* transience indicator is classified retryable by the default classifier,
\* be it a generic error or an API error.
C7_AsStated ==
    (/\ last_exception # NoException
     /\ last_exception.status_code = None
     /\ NoTransienceIndicator(last_exception))
        => is_retryable_error(last_exception)

\* ------------------------------------------------------------------ C8
\* C8: the sleep that follows a rate-limit failure carrying retry_after = R
\* lasts exactly min(R, max_delay), at every attempt index.
C8_RetryAfterDelay ==
    \A i \in Indices("sleep") :
        LET e == log[RaiseBefore(i)].error
        IN  (e.cls = "ConfluenceRateLimitError" /\ e.retry_after # None)
                => log[i].delay = IF e.retry_after <= policy.max_delay
                                  THEN e.retry_after ELSE policy.max_delay

C8_Witness ==
    /\ pc = "sleeping"
    /\ attempt = MaxRetriesBound - 1
    /\ last_exception.cls = "ConfluenceRateLimitError"
    /\ last_exception.retry_after > policy.max_delay
    /\ delay = policy.max_delay
    /\ \E i \in Indices("sleep") :
          /\ log[i].attempt = 0
          /\ log[RaiseBefore(i)].error.cls = "ConfluenceRateLimitError"
          /\ log[i].delay = log[RaiseBefore(i)].error.retry_after
          /\ log[i].delay < policy.max_delay

\* ------------------------------------------------------------------ C9
\* C9: no delay the wrapper computes or sleeps exceeds max_delay, with or
\* without a retry-after value, whatever the attempt index and the jitter.
C9_DelayNeverExceedsMax ==
    /\ delay <= policy.max_delay
    /\ \A i \in Indices("sleep") : log[i].delay <= policy.max_delay

C9_Witness ==
    /\ pc = "sleeping"
    /\ delay = policy.max_delay
    /\ IsBackoffSleep(Len(log))
    /\ log[Len(log)].jitter > 0
    /\ policy.initial_delay * Pow(policy.backoff_factor, attempt) < policy.max_delay
    /\ policy.initial_delay * Pow(policy.backoff_factor, attempt)
           + log[Len(log)].jitter > policy.max_delay

\* ----------------------------------------------------------------- C10
\* C10 as stated: jitter included, the backoff delay of a later attempt is
\* never shorter than the backoff delay of an earlier one.
C10_AsStated ==
    \A i, j \in Indices("sleep") :
        (IsBackoffSleep(i) /\ IsBackoffSleep(j) /\ log[i].attempt < log[j].attempt)
            => log[i].delay <= log[j].delay

\* C10 amended: for fixed parameters the backoff delay is non-decreasing in
\* the attempt index when the jitter drawn for the later attempt is not below
\* the jitter drawn for the earlier one (in particular for equal jitter); with
\* independent draws a later delay can be the shorter one.
C10_MonotoneForEqualJitter ==
    \A i, j \in Indices("sleep") :
        (/\ IsBackoffSleep(i) /\ IsBackoffSleep(j)
         /\ log[i].attempt < log[j].attempt
         /\ log[i].jitter <= log[j].jitter)
            => log[i].delay <= log[j].delay

C10_Witness ==
    \E i, j \in Indices("sleep") :
        /\ IsBackoffSleep(i) /\ IsBackoffSleep(j)
        /\ log[i].attempt < log[j].attempt
        /\ log[i].jitter = log[j].jitter
        /\ log[i].jitter > 0
        /\ log[i].delay < log[j].delay
        /\ log[j].delay < policy.max_delay

\* ------------------------------------------------------------------ C11
\* The on_retry events up to and including index i.
OnRetryUpTo(i) == {j \in Indices("on_retry") : j <= i}

\* C11: the on-retry observer is invoked exactly once per retry, directly
\* after the failure was judged retryable and directly before the delay is
\* slept, with the failing error and the attempt numbers 1, 2, ... in
\* order; it is not invoked after a success, after a non-retryable failure
\* or after the failure of the last permitted attempt, nor when the policy
\* has no observer.
C11_ObserverOncePerRetry ==
    /\ ~policy.on_retry => Indices("on_retry") = {}
    /\ policy.on_retry =>
          /\ Cardinality(Indices("on_retry")) = Cardinality(Indices("sleep"))
          /\ \A i \in Indices("sleep") :
                 /\ i > 2
                 /\ log[i - 1].type = "on_retry"
                 /\ log[i - 2].type = "raise"
          /\ \A i \in Indices("on_retry") :
                 /\ i > 1 /\ i < Len(log)
                 /\ log[i - 1].type = "raise"
                 /\ RetryableAt(i - 1)
                 /\ log[i - 1].attempt < policy.max_retries
                 /\ log[i + 1].type = "sleep"
                 /\ log[i + 1].attempt = log[i - 1].attempt
                 /\ log[i].error = log[i - 1].error
                 /\ log[i].attempt_number = log[i - 1].attempt + 1
                 /\ log[i].attempt_number = Cardinality(OnRetryUpTo(i))
          /\ \A i \in Indices("raise") :
                 (\/ ~RetryableAt(i)
                  \/ log[i].attempt >= policy.max_retries)
                     => i = Len(log)
          /\ \A i \in Indices("return") : i = Len(log)

C11_Witness ==
    /\ policy.on_retry
    /\ Done
    /\ result.kind = "return"
    /\ Cardinality(Indices("on_retry")) = 2
    /\ \E i, j \in Indices("on_retry") :
           i < j /\ log[i].attempt_number = 1 /\ log[j].attempt_number = 2

\* ------------------------------------------------------------------ C12
\* Attempts entered and not yet left.
OpenAttempts ==
    Cardinality(Indices("call"))
        - Cardinality(Indices("return")) - Cardinality(Indices("raise"))

\* The calls of the operation before log index i.
CallsBefore(i) == {j \in Indices("call") : j < i}

\* What the log shows of the order of attempts: at most one attempt is open,
\* and it is open exactly while the operation runs; attempts are numbered in
\* the order of their calls; the call of attempt N+1 directly follows the
\* sleep of attempt N, which follows the retryable failure of attempt N.
C12_OneAttemptAtATime ==
    /\ OpenAttempts = (IF pc = "running" THEN 1 ELSE 0)
    /\ pc = "sleeping" =>
          /\ log[Len(log)].type = "sleep"
          /\ log[Len(log)].attempt = attempt
          /\ log[Len(log)].delay = delay
    /\ \A i \in Indices("call") :
          /\ log[i].attempt = Cardinality(CallsBefore(i))
          /\ log[i].attempt = 0 => i = 1
          /\ log[i].attempt > 0 =>
                /\ i > 2
                /\ log[i - 1].type = "sleep"
                /\ log[i - 1].attempt = log[i].attempt - 1
                /\ log[RaiseBefore(i - 1)].attempt = log[i].attempt - 1
                /\ RetryableAt(RaiseBefore(i - 1))

\* What a step may do: the operation is entered only from the head of the
\* loop; the head of the loop is reached for attempt N+1 only by the sleep of
\* attempt N returning; and while the wrapper sleeps nothing else happens.
C12_StepInOrder ==
    /\ (Len(log') > Len(log) /\ log'[Len(log) + 1].type = "call")
          => pc = "loop" /\ pc' = "running" /\ log' = Append(log, CallEvent(attempt))
    /\ (pc' = "loop" /\ attempt' > 0 /\ pc # "loop")
          => pc = "sleeping" /\ attempt' = attempt + 1
    /\ pc = "sleeping"
          => pc' \in {"loop", "done"} /\ log' = log /\ delay' = delay

\* C12: within one invocation attempts are strictly sequential: attempt N+1
\* starts only after attempt N has failed, the failure has been classified
\* retryable and the delay computed for it has elapsed; no two attempts of
\* the invocation overlap.
C12_AttemptsSequential == []C12_OneAttemptAtATime /\ [][C12_StepInOrder]_vars

C12_Witness ==
    /\ pc = "running"
    /\ attempt = MaxRetriesBound
    /\ Cardinality(Indices("sleep")) = MaxRetriesBound
    /\ Cardinality(Indices("raise")) = MaxRetriesBound

\* ------------------------------------------------------------------ C13
\* Log entry i is the cancellation reaching the wrapper: out of the awaited
\* operation, or out of the awaited sleep.
IsCancellation(i) ==
    \/ log[i].type = "sleep_cancelled"
    \/ log[i].type = "raise" /\ log[i].error.cls = "CancelledError"

\* C13: a cancellation that interrupts the async wrapper during an attempt
\* or during a backoff delay ends the call at once and reaches the caller as
\* the cancellation itself: it is not kept as the last failure of the
\* operation, not wrapped in MaxRetriesExceeded, and nothing is observed,
\* slept or attempted after it.
C13_CancellationPropagates ==
    \A i \in DOMAIN log :
        IsCancellation(i) =>
            /\ i = Len(log)
            /\ Done
            /\ result = Raise(Instance(CancelledError, log[i].attempt))
            /\ last_exception.cls # "CancelledError"
            /\ attempt = log[i].attempt
            /\ NumCalls = log[i].attempt + 1

C13_Witness ==
    /\ Done
    /\ Len(log) > 0
    /\ log[Len(log)].type = "sleep_cancelled"
    /\ log[Len(log)].attempt = 1
    /\ result.kind = "raise"
    /\ result.error.cls = "CancelledError"
    /\ last_exception.cls = "ConfluenceRateLimitError"

\* ------------------------------------------------------------------ C14
\* A step is a step of an action of wrapper exactly when it is a step of the
\* same action of async_wrapper with the same outcome of the operation and
\* the same jitter draw.
C14_SameStep ==
    /\ Invoke <=> AsyncInvoke
    /\ BeginAttempt <=> AsyncBeginAttempt
    /\ \A v \in Values : AttemptReturns(v) <=> AsyncAttemptReturns(v)
    /\ \A err \in VariantErrors, jitter \in JitterValues :
          AttemptRaises(err, jitter) <=> AsyncAttemptRaises(err, jitter)
    /\ SleepElapses <=> AsyncSleepElapses

\* C14: the synchronous and the asynchronous wrapper are the same algorithm:
\* from the same state, for the same policy and the same outcome of the
\* operation, each takes exactly the steps the other takes, so they make the
\* same attempts, compute the same delays, call the observer with the same
\* arguments in the same order and end in the same outcome.
C14_VariantsEquivalent == [][C14_SameStep]_vars

C14_Witness ==
    /\ Done
    /\ policy.on_retry
    /\ policy.max_retries = MaxRetriesBound
    /\ Cardinality(Indices("on_retry")) = MaxRetriesBound
    /\ result.kind = "raise"
    /\ result.error.cls = "MaxRetriesExceededError"
    /\ result.error.last_exception.cls = "ConfluenceAPIError"

\* ------------------------------------------------------------------ C15
\* The entries of type t in the log l of a frame.
EntriesOf(l, t) == {i \in DOMAIN l : l[i].type = t}

\* The last entry of type t in l; l has one.
LastOf(l, t) == CHOOSE i \in EntriesOf(l, t) : \A j \in EntriesOf(l, t) : j <= i

\* The last error the operation of frame f raised, None before the first.
LastErrorOf(f) ==
    IF EntriesOf(f.log, "raise") = {} THEN NoException
    ELSE f.log[LastOf(f.log, "raise")].error

\* The state of the call in frame f is what its own policy and the outcomes
\* of its own operation make it: the errors in its log are errors of its
\* own operation, its attempt count is the number of its calls, its last
\* error is the last one its operation raised, its delays are computed from
\* its policy, and its outcome is the value or the error of its last
\* attempt.
OwnStateOnly(f) ==
    LET calls == Cardinality(EntriesOf(f.log, "call")) IN
    /\ \A i \in EntriesOf(f.log, "raise") :
          \E err \in ErrorsOfCall(f.call) :
              f.log[i].error = Instance(err, f.log[i].attempt)
    /\ \A i \in EntriesOf(f.log, "on_retry") :
          f.log[i].error = f.log[i - 1].error
    /\ calls <= f.policy.max_retries + 1
    /\ f.attempt = (CASE f.pc = "idle" -> 0
                      [] f.pc = "loop" -> calls
                      [] OTHER         -> calls - 1)
    /\ f.pc \in {"loop", "running", "sleeping", "done"}
          => f.last_exception = LastErrorOf(f)
    /\ \A i \in EntriesOf(f.log, "sleep") :
          LET e == f.log[i - 2].error IN
          f.log[i].delay =
              calculate_delay(f.log[i].attempt, f.policy.initial_delay,
                              f.policy.max_delay, f.policy.backoff_factor,
                              RetryAfterOf(e), 0)
    /\ f.delay = (IF EntriesOf(f.log, "sleep") = {} THEN 0
                  ELSE f.log[LastOf(f.log, "sleep")].delay)
    /\ f.pc = "done" =>
          \/ /\ f.log[Len(f.log)].type = "return"
             /\ f.result = Return(f.log[Len(f.log)].value)
          \/ /\ f.log[Len(f.log)].type = "raise"
             /\ f.log[Len(f.log)].attempt < f.policy.max_retries
             /\ f.result = Raise(LastErrorOf(f))
          \/ /\ f.log[Len(f.log)].type = "raise"
             /\ f.log[Len(f.log)].attempt = f.policy.max_retries
             /\ f.result = Raise(MaxRetriesExceededError(f.policy.max_retries,
                                                         LastErrorOf(f)))
    /\ f.pc # "done" => f.result = NoResult

\* C15: two calls of the retry wrapper running at the same time are
\* independent: under every interleaving of their steps, the attempt count,
\* the last error, the delays and the outcome of each depend only on its own
\* policy and on the outcomes of its own operation.
C15_CallsIndependent ==
    /\ OwnStateOnly(RunningFrame(RunningCall))
    /\ OwnStateOnly(suspended)

\* Both calls have retried and ended, the first by exhaustion with an error
\* of its own operation, the second with a value, under different policies.
C15_Witness ==
    /\ RunningCall = 1
    /\ pc = "done"
    /\ suspended.pc = "done"
    /\ policy.max_retries = TwoCallsMaxRetries
    /\ policy.initial_delay # suspended.policy.initial_delay
    /\ result.kind = "raise"
    /\ result.error.cls = "MaxRetriesExceededError"
    /\ result.error.last_exception.cls = "Exception"
    /\ suspended.result.kind = "return"
    /\ EntriesOf(suspended.log, "sleep") # {}
    /\ suspended.log[1].type = "call"
    /\ Len(log) > 1

\* ------------------------------------------------------------------ C16
Tools == {"search_confluence", "get_page_content", "list_pages"}

\* One of the validators the tool of req applies raises for its argument.
FailsValidation(req) ==
    \/ /\ req.tool = "search_confluence"
       /\ ~validate_query(req.query).ok \/ ~validate_limit(req.limit).ok
    \/ /\ req.tool = "get_page_content"
       /\ ~validate_page_id(req.page_id).ok
    \/ /\ req.tool = "list_pages"
       /\ ~validate_space_key(req.space).ok \/ ~validate_limit(req.limit).ok

\* C16: when the query, the page id, the space key or the limit of a call of
\* search, get-page or list-pages fails validation, the operation raises a
\* ValidationError and the Confluence client has not been called.
C16_ValidationBeforeRemote ==
    (request.tool \in Tools /\ FailsValidation(request))
        => /\ op_pc = "done"
           /\ impl_outcome.kind = "raise"
           /\ IsInstance(impl_outcome.error, {"ValidationError"})
           /\ remote_calls = <<>>

\* A search whose query is clean and whose limit is not.
C16_Witness ==
    /\ op_pc = "done"
    /\ request.tool = "search_confluence"
    /\ validate_query(request.query).ok
    /\ request.limit = Num(MAX_LIMIT + 1)
    /\ impl_outcome.kind = "raise"
    /\ impl_outcome.error.cls = "InvalidLimitError"
    /\ remote_calls = <<>>

\* ------------------------------------------------------------------ C17
\* The call of the tool has ended and the first call to the client failed
\* with an error the default classification holds retryable.
RemoteFailedRetryably ==
    /\ op_pc = "done"
    /\ request.tool \in Tools
    /\ remote_calls # <<>>
    /\ remote_calls[1].outcome.kind = "raise"
    /\ is_retryable_error(remote_calls[1].outcome.error)

\* C17 as stated: in search, get-page and list-pages a retryable failure of
\* the call to the client is absorbed by the retry wrapper: the client is
\* called again, and the caller of the operation sees an error only as
\* MaxRetriesExceeded.
C17_AsStated ==
    RemoteFailedRetryably
        => /\ Len(remote_calls) > 1
           /\ impl_outcome.kind = "raise"
                 => impl_outcome.error.cls = "MaxRetriesExceededError"

\* ------------------------------------------------------------------ C18
\* C18 as stated: in get-page a classified, non-retryable error of the client
\* (authentication, permission, a client error) reaches the caller of the
\* operation as it is.
C18_AsStated ==
    ( /\ op_pc = "done"
      /\ request.tool = "get_page_content"
      /\ remote_calls # <<>>
      /\ remote_calls[1].outcome.kind = "raise"
      /\ IsInstance(remote_calls[1].outcome.error, {"ConfluenceAPIError"})
      /\ ~is_retryable_error(remote_calls[1].outcome.error) )
        => impl_outcome = remote_calls[1].outcome

\* ------------------------------------------------------------------ C19
\* C19 as stated: handle_api_errors turns a MaxRetriesExceeded error into the
\* fixed message 'Operation failed after multiple attempts', a message of
\* its own kind.
C19_AsStated ==
    ( /\ op_pc = "done"
      /\ impl_outcome.kind = "raise"
      /\ impl_outcome.error.cls = "MaxRetriesExceededError" )
        => tool_outcome =
               Return(<<Lit("Error:"),
                        Lit("Operation failed after multiple attempts."),
                        Lit("Please try again later.")>>)

\* ------------------------------------------------------------------ C20
\* C20: a function under handle_api_errors never raises an ordinary error to
\* its caller: whatever Exception it raises, the caller receives a string
\* that begins with 'Error:'; and what it returns the caller receives
\* unchanged.
C20_ErrorsBecomeStrings ==
    op_pc = "done" =>
        /\ impl_outcome.kind = "return" => tool_outcome = impl_outcome
        /\ (impl_outcome.kind = "raise"
              /\ IsInstance(impl_outcome.error, {"Exception"}))
              => /\ tool_outcome.kind = "return"
                 /\ tool_outcome.value[1] = Lit("Error:")

C20_Witness ==
    /\ op_pc = "done"
    /\ impl_outcome.kind = "raise"
    /\ impl_outcome.error.cls = "Exception"
    /\ tool_outcome.kind = "return"
    /\ tool_outcome.value[1] = Lit("Error:")
    /\ tool_outcome.value[2] = Lit("An unexpected error occurred:")
\* ----------------------------------------------------------------- C21
\* The value of the child of counter for labels; 0 while it has no such child.
Value(counter, labels) ==
    IF labels \in DOMAIN counter THEN counter[labels] ELSE 0

\* How many observations the histogram holds for labels.
Observed(histogram, labels) ==
    IF labels \in DOMAIN histogram THEN Len(histogram[labels]) ELSE 0

RECURSIVE Total(_)
Total(counter) ==
    IF DOMAIN counter = {} THEN 0
    ELSE LET l == CHOOSE x \in DOMAIN counter : TRUE
         IN  counter[l] + Total([x \in DOMAIN counter \ {l} |-> counter[x]])

\* What a finished call of tool must have left in the metrics: one outcome,
\* "success" when its function returned and "error" when it raised, one
\* duration, and one error count exactly in the "error" case.
RecordedOnce(tool) ==
    /\ Value(TOOL_INVOCATIONS, <<tool, "success">>)
           = (IF impl_outcome.kind = "return" THEN 1 ELSE 0)
    /\ Value(TOOL_INVOCATIONS, <<tool, "error">>)
           = (IF impl_outcome.kind = "raise" THEN 1 ELSE 0)
    /\ Total(TOOL_INVOCATIONS) = 1
    /\ Observed(TOOL_DURATION, <<tool>>) = 1
    /\ DOMAIN TOOL_DURATION = {<<tool>>}
    /\ Total(TOOL_ERRORS) = (IF impl_outcome.kind = "raise" THEN 1 ELSE 0)
    /\ impl_outcome.kind = "raise"
           => Value(TOOL_ERRORS, <<tool, impl_outcome.error.cls>>) = 1

\* C21: with metrics enabled, a finished invocation of search, get-page or
\* list-pages has recorded exactly one invocation outcome ("success" when the
\* operation returned, "error" when it raised, never both and never none) and
\* exactly one duration observation, and the error counter was incremented
\* only in the "error" case; before the invocation ends nothing is recorded.
C21_OneOutcomeOneDuration ==
    (include_metrics /\ request.tool \in Tools)
        => IF op_pc = "done"
           THEN RecordedOnce(request.tool)
           ELSE NothingRecorded

C21_Witness ==
    /\ include_metrics
    /\ op_pc = "done"
    /\ request.tool = "search_confluence"
    /\ remote_calls # <<>>
    /\ impl_outcome.kind = "raise"
    /\ impl_outcome.error.cls = "ConfluenceRateLimitError"
    /\ TOOL_INVOCATIONS = Inc(NoChildren, <<"search_confluence", "error">>)
    /\ TOOL_ERRORS
           = Inc(NoChildren, <<"search_confluence", "ConfluenceRateLimitError">>)
    /\ TOOL_DURATION
           = Observe(NoChildren, <<"search_confluence">>, TicksPerSecond)

\* ----------------------------------------------------------------- C22
\* The connectivity probe of the health check failed: the call to the client
\* raised.
ProbeFailed ==
    connectivity_runs # <<>> /\ LastRun.outcome.kind = "raise"

\* C22: a finished perform_health_check has returned a result (it never
\* raises) whose checks are exactly "server", "confluence_connectivity" and
\* "api_limits", and whose status is "unhealthy" exactly when the
\* connectivity probe failed and "healthy" exactly when it did not; "degraded"
\* is never reported.
C22_HealthyIffProbeSucceeds ==
    health_pc = "done"
        => /\ health_result.kind = "return"
           /\ DOMAIN health_result.value.checks
                  = {"server", "confluence_connectivity", "api_limits"}
           /\ health_result.value.status
                  = (IF ProbeFailed THEN "unhealthy" ELSE "healthy")
           /\ health_result.value.checks.confluence_connectivity.status
                  = health_result.value.status
           /\ health_result.value.status # "degraded"

C22_Witness ==
    /\ health_pc = "done"
    /\ confluence_client = "get_server_info"
    /\ ProbeFailed
    /\ LastRun.outcome.error.cls = "Exception"
    /\ health_result.kind = "return"
    /\ health_result.value.status = "unhealthy"
    /\ health_result.value.checks.api_limits.status = "unknown"

\* ----------------------------------------------------------------- C28
\* C28: when the attempt with index max_retries fails, the call ends there
\* with MaxRetriesExceeded that wraps the error of that attempt and has
\* total_retries = max_retries, whatever the kind of the error and whatever
\* the policy would say about it: nothing is classified, observed or slept.
C28_LastFailureIsExhaustion ==
    \A i \in Indices("raise") :
        log[i].attempt = policy.max_retries
            => /\ i = Len(log)
               /\ Done
               /\ result = Raise(MaxRetriesExceededError(policy.max_retries,
                                                         log[i].error))
               /\ result.error.total_retries = policy.max_retries
               /\ result.error.last_exception = log[i].error

C28_Witness ==
    /\ Done
    /\ policy.max_retries = MaxRetriesBound
    /\ log[Len(log)].type = "raise"
    /\ log[Len(log)].attempt = MaxRetriesBound
    /\ NonRetryableAt(Len(log))
    /\ log[Len(log)].error.cls = "ConfluenceAuthenticationError"
    /\ result.error.cls = "MaxRetriesExceededError"
    /\ result.error.last_exception = log[Len(log)].error

\* ----------------------------------------------------------------- C29
\* Every attempt the call was allowed has failed with an error the predicate
\* accepts.
PredicateRetriesUsedUp ==
    /\ Done
    /\ NumCalls = policy.max_retries + 1
    /\ EveryAttemptFailed
    /\ \A i \in Indices("raise") : Accepts(policy.predicate, log[i].error)

\* C29 as stated: when each of the max_retries + 1 attempts of a call under
\* retry_on_predicate fails with an error the predicate accepts, the call
\* ends with MaxRetriesExceeded wrapping the last error; the raw last error
\* does not reach the caller.
C29_AsStated ==
    PredicateRetriesUsedUp
        => /\ result = Raise(MaxRetriesExceededError(policy.max_retries,
                                                     log[Len(log)].error))
           /\ result # Raise(log[Len(log)].error)

\* ----------------------------------------------------------------- C30
\* The calls made to the client by the executions of check_connectivity.
ProbeCalls == {i \in DOMAIN connectivity_runs : connectivity_runs[i].method # "none"}

Normalized == markdown # NoResult

\* <p>a <strong>b</strong> c</p>
BoldInParagraph ==
    Soup(<<Element("p", <<NavigableString(<<"a", " ">>), Inline("strong"),
                          NavigableString(<<" ", "c">>)>>)>>)

\* C23 as stated: the normalizer turns <p>a <strong>b</strong> c</p> into
\* exactly "a **b** c": the words around the inline child stay separated by
\* the spaces of the input.
C23_AsStated ==
    (Normalized /\ soup = BoldInParagraph)
        => markdown.value = <<"a", " ", "*", "*", "b", "*", "*", " ", "c">>

\* ----------------------------------------------------------------- C24
\* The table rows of the parsed body, when the body is one table.
RowsOfTable == find_all(soup.children[1], {"tr"})

IsPipeDelimited(line) ==
    /\ Len(line) >= 2
    /\ line[1] = "|"
    /\ line[Len(line)] = "|"

\* C24 as stated: a table with R >= 1 rows renders to exactly R + 1
\* pipe-delimited lines (header, separator, R - 1 data rows), and a table
\* without rows to nothing.
C24_AsStated ==
    (Normalized /\ Len(soup.children) = 1 /\ soup.children[1].name = "table")
        => IF RowsOfTable = <<>>
           THEN markdown.value = <<>>
           ELSE LET lines == Split(markdown.value, "\n")
                IN  /\ Len(lines) = Len(RowsOfTable) + 1
                    /\ \A i \in DOMAIN lines : IsPipeDelimited(lines[i])

\* ----------------------------------------------------------------- C25
\* Three newlines in a row somewhere in text.
HasBlankRun(text) ==
    \E i \in 1..(Len(text) - 2) :
        text[i] = "\n" /\ text[i + 1] = "\n" /\ text[i + 2] = "\n"

\* C25 as stated: the output of the normalizer holds no run of three or more
\* newlines, no line that ends in whitespace, and no whitespace at its start
\* or its end.
C25_AsStated ==
    Normalized
        => /\ ~HasBlankRun(markdown.value)
           /\ \A i \in DOMAIN Split(markdown.value, "\n") :
                  LET line == Split(markdown.value, "\n")[i]
                  IN  line # <<>> => line[Len(line)] \notin Whitespace
           /\ markdown.value # <<>>
                  => /\ markdown.value[1] \notin Whitespace
                     /\ markdown.value[Len(markdown.value)] \notin Whitespace

\* ----------------------------------------------------------------- C26
\* <pre class="language-py"><code>x</code></pre>
PythonBlock ==
    Soup(<<Tag("pre", [NoAttrs EXCEPT !.class = <<LanguagePrefix \o <<"p", "y">>>>],
               <<Element("code", <<NavigableString(<<"x">>)>>)>>)>>)

\* C26 as stated: a code block with the class language-py renders as the
\* opening fence, py right after it, a newline, the text of the block, and
\* the closing fence on a line of its own.
C26_AsStated ==
    (Normalized /\ soup = PythonBlock)
        => markdown.value
               = <<Backtick, Backtick, Backtick, "p", "y", "\n", "x", "\n",
                   Backtick, Backtick, Backtick>>

\* ----------------------------------------------------------------- C27
\* The page the client returned to the call in progress.
StoredPage == remote_calls[Len(remote_calls)].outcome.value

\* A call of get_page_content has ended with the page the client returned.
PageFetched ==
    /\ op_pc = "done"
    /\ request.tool = "get_page_content"
    /\ remote_calls # <<>>
    /\ remote_calls[Len(remote_calls)].outcome.kind = "return"

\* The output of the normalizer for the stored markup.
NormalizedBody ==
    IF StoredPage.body = <<>> THEN <<>>
    ELSE MarkdownOf(BeautifulSoup(StoredPage.body))

\* C27: a page fetch returns "Title: <title>", a blank line, then the
\* content: the output of the normalizer for the stored markup when
\* conversion is enabled, the stored markup character for character when it
\* is disabled.
C27_TitleThenContent ==
    PageFetched
        => impl_outcome
               = Return(<< Lit("Title:"), Str(StoredPage.title), Lit("\n\n"),
                           Str(IF request.convert_to_markdown
                               THEN NormalizedBody
                               ELSE StoredPage.body) >>)

C27_Witness ==
    /\ PageFetched
    /\ request.convert_to_markdown
    /\ StoredPage.body = <<"<", "p", "r", "e", ">", "x", "<", "/", "p", "r", "e", ">">>
    /\ impl_outcome.value[4]
           = Str(<<Backtick, Backtick, Backtick, "x", "\n",
                   Backtick, Backtick, Backtick>>)
    /\ tool_outcome = impl_outcome

====
